---- MODULE Spec2Model ----
(***************************************************************************)
(* Model of the chat streaming and tool-approval core of the jean server:  *)
(*   - the Approval Gate      (packages/server/src/core/approvals.ts)      *)
(*   - the Turn Driver        (core/agent.ts: buildAiSdkTools, streamChat) *)
(*   - the tool.approval path (server index.ts: handleClientMessage)       *)
(* Time is the value of Date.now() in milliseconds; it advances in steps   *)
(* of TickMs.  Every Promise created by createPendingApproval is one       *)
(* element of `promises`; its index stands for the `resolve` closure.      *)
(***************************************************************************)
EXTENDS Integers, Sequences, FiniteSets, TLC

\* ------------------------------------------------------------------ bounds
MaxRequests == 3        \* direct createPendingApproval calls per behaviour
MaxTicks == 2           \* the clock stops after this many ticks
TicksPerTimeout == 1    \* clock ticks in one approval timeout
MaxCalls == 2           \* tool calls the provider makes in one turn
MaxDeltas == 1          \* text-delta chunks the provider sends in one turn
MaxQueue == 1           \* chunks buffered in fullStream before they are read
TurnTicks == 1          \* clock ticks within one turn
MaxConnOps == 2         \* connections opened and session.resume / chat.message handled
ChatCalls == 1          \* tool calls of a turn served by handleChat
ClientCalls == 2        \* tool calls of the turn the client is told about
ClientDeltas == 1       \* chat.delta messages the client is sent
MaxHistory == 2         \* messages of a history given to convertToAiSdkMessages
MaxContent == 2         \* content blocks of a history message
MaxStored == 2          \* messages stored in a session's transcript
MaxBlocks == 3          \* content blocks of a rendered message

\* --------------------------------------------------------------- constants
APPROVAL_TIMEOUT_MS == 5 * 60 * 1000
TickMs == APPROVAL_TIMEOUT_MS \div TicksPerTimeout
MaxNow == MaxTicks * TickMs

\* what randomUUID() returns, in order
Uuids == <<"u1", "u2", "u3", "u4", "u5", "u6", "u7", "u8", "u9", "u10", "u11", "u12">>
\* the provider's toolCallIds
ProviderIds == <<"c1", "c2", "c3", "c4", "c5", "c6", "c7", "c8", "c9", "c10", "c11", "c12">>
StopWhenSteps == 10                \* stopWhen: stepCountIs(10)
ApprovalIds == {"u1", "u2"}        \* toolCallId strings handed to the gate directly
Conns == {1, 2}                    \* WebSocket connections
SessionId == "s1"                  \* the session of the turn
ToolNames == {"calc", "rm"}
\* The manifests (definition.requireApproval, definition.dangerous) of the tools.
ToolDefs == [calc |-> [requireApproval |-> FALSE, dangerous |-> FALSE],
             rm   |-> [requireApproval |-> TRUE,  dangerous |-> TRUE]]
ArgsOf == [calc |-> "a:1,b:2", rm |-> "path:/"]
Letters == <<"a", "b", "c", "d", "e", "f">>
\* delta.text of the k-th text-delta chunk: empty, or one letter
DeltaTexts(k) == {<<>>, <<Letters[k]>>}

VARIABLES
  now,               \* Date.now()
  pendingApprovals,  \* Map<string, PendingApproval>: a function on the present keys
  promises,          \* the Promise (and its timer) of every createPendingApproval call
  clients,           \* Map<WebSocket, {sessionId?}> in insertion order
  sent,              \* per connection, the messages ws.send was given
  warnLog,           \* the toolCallId of the latest console.warn of the tool.approval case
  pc,                \* where streamChat stands: idle, streaming, done, failed (it threw),
                     \* aborted (its caller threw while handling an event)
  hasCallback,       \* options.onToolApprovalRequired was supplied
  calls,             \* the tool invocations of the turn (the SDK's execute calls)
  uuids,             \* number of randomUUID() values handed out
  fullStream,        \* chunks of result.fullStream not yet read by streamChat
  streamClosed,      \* the SDK has closed fullStream
  deltas,            \* text-delta chunks produced so far
  streamLog,         \* every chunk the SDK has put on fullStream, in order
  currentText,       \* streamChat: currentText
  contentBlocks,     \* streamChat: contentBlocks
  events,            \* the events streamChat has yielded, in order
  readyState,        \* ws.readyState of every connection
  sendThrows,        \* the connections whose ws.send throws
  sessions,          \* the sessions table: a function on the stored session ids
  messages,          \* the messages table, in insertion order
  chatWs,            \* the connection whose chat.message handleChat is serving (0: none)
  connOps,           \* session.resume messages handled and connections opened so far
  clientMsgs,        \* client: messagesBySession[currentSession.id]
  rcvd,              \* client: the server messages handled so far
  groupIn,           \* the content given to groupToolCallsAndResults
  groupOut,          \* what groupToolCallsAndResults returned for it
  history,           \* handleChat: history = listMessages(sessionId), streamChat's messages
  aiMessages,        \* streamChat: what convertToAiSdkMessages returned for them
  given,             \* the messages StoreMessage gave to createMessage, in order
  resolution,        \* handleChat and getModel: what a turn resolved its model to
  other              \* the handleChat invocation serving a turn of another session

gateVars == <<now, pendingApprovals, promises>>
connVars == <<clients, sent, warnLog>>
sdkVars == <<calls, uuids, fullStream, streamClosed, deltas, streamLog>>
chatVars == <<pc, hasCallback, currentText, contentBlocks, events>>
turnVars == <<pc, hasCallback, calls, uuids, fullStream, streamClosed, deltas, streamLog,
              currentText, contentBlocks, events>>
srvVars == <<readyState, sendThrows, sessions, messages, chatWs, connOps>>
uiVars == <<clientMsgs, rcvd, groupIn, groupOut>>
fnVars == <<history, aiMessages, given, resolution, other>>
extVars == <<srvVars, uiVars, fnVars>>
vars == <<now, pendingApprovals, promises, clients, sent, warnLog, pc, hasCallback, calls,
          uuids, fullStream, streamClosed, deltas, streamLog, currentText, contentBlocks,
          events, readyState, sendThrows, sessions, messages, chatWs, connOps, clientMsgs,
          rcvd, groupIn, groupOut, history, aiMessages, given, resolution, other>>

\* ------------------------------------------------------- Promise semantics
\* Calling a Promise's resolve function: the first call settles the promise,
\* every later call is ignored (ECMAScript promise resolve functions).
PromiseResolve(ps, r, v, who) ==
  [ps EXCEPT ![r] = IF ps[r].settled
                    THEN [@ EXCEPT !.resolveCalls = @ + 1]
                    ELSE [@ EXCEPT !.settled = TRUE, !.value = v, !.by = who,
                                   !.resolveCalls = @ + 1]]

\* Map.delete emptying the map (Map.clear).
MapClear(m, k) == [x \in {} |-> m[x]]

\* Map.delete
MapDelete(m, k) == [x \in (DOMAIN m) \ {k} |-> m[x]]

\* Map.set
MapSet(m, k, v) == [x \in (DOMAIN m) \cup {k} |-> IF x = k THEN v ELSE m[x]]

\* -------------------------------------------------------------- connections
\* The keys of the clients map (the connections that are open).
ClientKeys == {clients[i].ws : i \in 1..Len(clients)}

\* getWsForSession(sessionId): the first connection, in the map's order, that
\* is bound to the session; 0 stands for undefined.
getWsForSession(sessionId) ==
  LET hits == {i \in 1..Len(clients) : clients[i].sessionId = sessionId} IN
  IF hits = {} THEN 0
  ELSE clients[CHOOSE i \in hits : \A j \in hits : i <= j].ws

\* send(ws, msg)
send(out, ws, msg) == [out EXCEPT ![ws] = Append(@, msg)]

\* send(ws, msg) where ws.send may throw: what was sent, and whether it threw.
trySend(out, ws, msg) ==
  IF ws \in sendThrows THEN [out |-> out, threw |-> TRUE]
  ELSE [out |-> send(out, ws, msg), threw |-> FALSE]

\* clients.set(ws, data): a present key keeps its place in the map's order.
ClientsSet(cl, ws, sessionId) ==
  IF \E i \in 1..Len(cl) : cl[i].ws = ws
  THEN [i \in 1..Len(cl) |-> IF cl[i].ws = ws THEN [ws |-> ws, sessionId |-> sessionId]
                                               ELSE cl[i]]
  ELSE Append(cl, [ws |-> ws, sessionId |-> sessionId])

\* clients.delete(ws)
ClientsDelete(cl, ws) == SelectSeq(cl, LAMBDA e : e.ws # ws)

\* broadcast(message) that stops after the first open client.
RECURSIVE broadcastFromFirstOnly(_, _, _)
broadcastFromFirstOnly(out, msg, i) ==
  IF i > Len(clients) THEN [out |-> out, threw |-> FALSE]
  ELSE LET ws == clients[i].ws IN
       IF readyState[ws] # "OPEN" THEN broadcastFromFirstOnly(out, msg, i + 1)
       ELSE [out |-> send(out, ws, msg), threw |-> FALSE]

\* broadcast(message), from the i-th client of the map on: ws.send for every
\* client whose readyState is OPEN, in the map's order; a ws.send that throws
\* ends the loop.
RECURSIVE broadcastFrom(_, _, _)
broadcastFrom(out, msg, i) ==
  IF i > Len(clients) THEN [out |-> out, threw |-> FALSE]
  ELSE LET ws == clients[i].ws IN
       IF readyState[ws] # "OPEN" THEN broadcastFrom(out, msg, i + 1)
       ELSE IF ws \in sendThrows THEN [out |-> out, threw |-> TRUE]
       ELSE broadcastFrom(send(out, ws, msg), msg, i + 1)

broadcast(out, msg) == broadcastFrom(out, msg, 1)

\* ----------------------------------------------------- sessions and messages
\* The preconfig files on disk, the providers with an API key in the
\* environment, models.json.
Preconfigs == [p1 |-> [model |-> "gpt-4o", isDefault |-> TRUE, null |-> FALSE]]
ApiKeyProviders == {"openai"}
ModelProviders == [x \in {"gpt-4o", "claude-sonnet"} |-> IF x = "gpt-4o" THEN "openai" ELSE "anthropic"]
DefaultProvider == "openai"
Null == [model |-> "", isDefault |-> FALSE, null |-> TRUE]

\* getPreconfig(id): null when the file cannot be read.
getPreconfig(id) == IF id \in DOMAIN Preconfigs THEN Preconfigs[id] ELSE Null

\* getDefaultPreconfig(): the default one, else the first, else null.
getDefaultPreconfig ==
  LET dflt == {id \in DOMAIN Preconfigs : Preconfigs[id].isDefault} IN
  IF dflt # {} THEN Preconfigs[CHOOSE id \in dflt : TRUE]
  ELSE IF DOMAIN Preconfigs # {} THEN Preconfigs[CHOOSE id \in DOMAIN Preconfigs : TRUE]
  ELSE Null

\* The model ids a session or a preconfig can name: those of models.json,
\* and unknown ones of every shape the fallback parsing tells apart.
ModelIds == {"gpt-4o", "claude-sonnet", "vendor/model", "claude-x", "gemini-x", "local"}
IncludesSlash(m) == m \in {"vendor/model"}
StartsWithClaude(m) == m \in {"claude-sonnet", "claude-x"}
StartsWithGemini(m) == m \in {"gemini-x"}

\* findProviderFromModel(m)
findProviderFromModel(m) ==
  IF m \in DOMAIN ModelProviders THEN ModelProviders[m]
  ELSE IF IncludesSlash(m) THEN "openrouter"
  ELSE IF StartsWithClaude(m) THEN "anthropic"
  ELSE IF StartsWithGemini(m) THEN "google"
  ELSE "openai"

\* The provider handleChat resolves: session > preconfig > config default.
ResolveProvider(session, preconfig) ==
  IF session.selectedProvider # "" THEN session.selectedProvider
  ELSE IF preconfig.model # "" THEN findProviderFromModel(preconfig.model)
  ELSE DefaultProvider

\* models.json: defaultModel.
DefaultModel == "gpt-4o"

\* The provider ids a session can carry: the four known ones and another.
ProviderNames == {"openai", "anthropic", "openrouter", "google", "azure"}

\* a || b on strings and null: the first one that is not empty.
Or(a, b) == IF a # "" THEN a ELSE b

\* handleChat: modelId = session.selectedModel || preconfig?.model || configDefaultModel
ResolveModel(session, preconfig) ==
  Or(session.selectedModel, Or(preconfig.model, DefaultModel))

\* handleChat: apiKeyEnvMap
apiKeyEnvMap ==
  [openai |-> "LLM_OPENAI_API_KEY", anthropic |-> "LLM_ANTHROPIC_API_KEY",
   openrouter |-> "LLM_OPENROUTER_API_KEY", google |-> "LLM_GOOGLE_API_KEY"]
EnvNames == {apiKeyEnvMap[p] : p \in DOMAIN apiKeyEnvMap}

\* apiKeyEnvMap[provider]: undefined for another provider, and
\* process.env[undefined] reads the variable named "undefined".
apiKeyEnv(provider) ==
  IF provider \in DOMAIN apiKeyEnvMap THEN apiKeyEnvMap[provider] ELSE "undefined"

\* getModel: the provider of the model, looked up and then parsed from the id.
LookUpProvider(resolvedModelId) ==
  IF resolvedModelId \in DOMAIN ModelProviders THEN ModelProviders[resolvedModelId]
  ELSE IF IncludesSlash(resolvedModelId) THEN "openrouter"
  ELSE IF StartsWithClaude(resolvedModelId) THEN "anthropic"
  ELSE IF StartsWithGemini(resolvedModelId) THEN "google"
  ELSE "openai"

\* getModel looking the provider up from the model id whatever it is given.
getModelProviderLookingUp(resolvedModelId, providerId) == LookUpProvider(resolvedModelId)

\* getModel: the provider is the one given, and looked up only without one.
getModelProvider(resolvedModelId, providerId) ==
  IF providerId # "" THEN providerId ELSE LookUpProvider(resolvedModelId)

\* getModel: getApiKey(), as the environment variable it returns.
getApiKey(provider) ==
  IF provider \in DOMAIN apiKeyEnvMap THEN apiKeyEnvMap[provider] ELSE "LLM_OPENAI_API_KEY"

\* getModel: the SDK client of the final switch.
SdkClient(provider) ==
  IF provider \in {"openrouter", "anthropic", "google"} THEN provider ELSE "openai"

\* getModel(modelId, providerId) in the environment env.
getModel(modelId, providerId, env) ==
  LET resolvedModelId == Or(modelId, "gpt-4o")
      provider == getModelProvider(resolvedModelId, providerId)
  IN [provider |-> provider, model |-> resolvedModelId, apiKey |-> getApiKey(provider),
      client |-> SdkClient(provider), threw |-> getApiKey(provider) \notin env]

SessionRow(preconfigId, selectedProvider) ==
  [preconfigId |-> preconfigId, selectedProvider |-> selectedProvider,
   promptTokens |-> 0, completionTokens |-> 0, totalTokens |-> 0]

\* The sessions table at start: s1 can chat, s2 names a preconfig that is
\* gone, s3 selects a provider without API key.
StoredSessions ==
  [s1 |-> SessionRow("p1", ""), s2 |-> SessionRow("p9", ""),
   s3 |-> SessionRow("", "google")]
SessionIds == {"s1", "s2", "s3", "s0"}

\* ------------------------------------------------------------- JS values
\* A JSON value as far as the code looks at it: its typeof (kind), its 'error'
\* and 'value' keys ("" when the key is absent) and its payload.
JsVal(kind, error, message, toolName, args, valueKey, data) ==
  [kind |-> kind, error |-> error, message |-> message, toolName |-> toolName,
   args |-> args, valueKey |-> valueKey, data |-> data]
Undefined == JsVal("undefined", "", "", "", "", "", "")
Number(n) == JsVal("number", "", "", "", "", "", n)
String(t) == JsVal("string", "", "", "", "", "", t)
JsonTexts == {"3"}                       \* the strings JSON.parse accepts

\* JSON text is written as the function from the keys present in it to
\* their values: JSON.stringify leaves out a key whose value is undefined,
\* and a key that JSON.parse did not find reads as undefined.
JsonField(key, present, value) == IF present THEN (key :> value) ELSE <<>>
Field(json, key, default) == IF key \in DOMAIN json THEN json[key] ELSE default

\* JSON.stringify of a tool result value.
JsonOfValue(v) ==
  IF v.kind = "object"
  THEN ("kind" :> "object")
         @@ JsonField("error", v.error # "", v.error)
         @@ JsonField("message", v.message # "", v.message)
         @@ JsonField("toolName", v.toolName # "", v.toolName)
         @@ JsonField("args", v.args # "", v.args)
         @@ JsonField("value", v.valueKey # "", v.valueKey)
  ELSE ("kind" :> v.kind) @@ ("data" :> v.data)
\* JSON.parse of it.
ValueOfJson(json) ==
  JsVal(json["kind"], Field(json, "error", ""), Field(json, "message", ""),
        Field(json, "toolName", ""), Field(json, "args", ""), Field(json, "value", ""),
        Field(json, "data", ""))

\* JSON.stringify of a block with the isError key left out.
JsonOfBlockNoIsError(b) ==
  ("type" :> b.type)
    @@ JsonField("text", b.type = "text", b.text)
    @@ JsonField("toolCallId", b.type # "text", b.toolCallId)
    @@ JsonField("toolName", b.type # "text", b.toolName)
    @@ JsonField("args", b.type = "tool_call", b.args)
    @@ JsonField("result", b.type = "tool_result" /\ b.result.kind # "undefined",
                 JsonOfValue(b.result))

\* JSON.stringify of a content block: its own keys, in order.
JsonOfBlock(b) ==
  ("type" :> b.type)
    @@ JsonField("text", b.type = "text", b.text)
    @@ JsonField("toolCallId", b.type # "text", b.toolCallId)
    @@ JsonField("toolName", b.type # "text", b.toolName)
    @@ JsonField("args", b.type = "tool_call", b.args)
    @@ JsonField("result", b.type = "tool_result" /\ b.result.kind # "undefined",
                 JsonOfValue(b.result))
    @@ JsonField("isError", b.type = "tool_result", b.isError)
\* JSON.parse of it.
BlockOfJson(json) ==
  [type |-> json["type"], text |-> Field(json, "text", <<>>),
   toolCallId |-> Field(json, "toolCallId", ""), toolName |-> Field(json, "toolName", ""),
   args |-> Field(json, "args", ""),
   result |-> IF "result" \in DOMAIN json THEN ValueOfJson(json["result"])
              ELSE Undefined,
   isError |-> Field(json, "isError", FALSE)]

\* JSON.stringify(m.content) and JSON.parse(row.content)
JSONStringify(content) == [i \in 1..Len(content) |-> JsonOfBlock(content[i])]
JSONParse(text) == [i \in 1..Len(text) |-> BlockOfJson(text[i])]

\* createMessage({id, sessionId, role, content}): the row inserted.
createMessage(ms, id, sessionId, role, content) ==
  Append(ms, [id |-> id, sessionId |-> sessionId, role |-> role,
              content |-> JSONStringify(content)])

\* mapRowToMessage(row)
mapRowToMessage(row) == [id |-> row.id, role |-> row.role, content |-> JSONParse(row.content)]

\* listMessages(sessionId): the rows of the session, oldest first.
listMessages(ms, sessionId) ==
  LET rows == SelectSeq(ms, LAMBDA row : row.sessionId = sessionId)
  IN [i \in 1..Len(rows) |-> mapRowToMessage(rows[i])]

UserMsgId == "m1"
AssistantMsgId == "m2"
ErrorMsg(code) == [type |-> "error", code |-> code]

\* ------------------------------------------------------------ Approval Gate
\* createPendingApproval(toolCall, dangerous): store the entry with the new
\* promise's resolver, arm the promise's own timer.
createPendingApproval(toolCall, dangerous) ==
  LET r == Len(promises) + 1 IN
  /\ pendingApprovals' = MapSet(pendingApprovals, toolCall.toolCallId,
                                [toolCall |-> toolCall, dangerous |-> dangerous,
                                 resolve |-> r, createdAt |-> now])
  /\ promises' = Append(promises,
                        [toolCallId |-> toolCall.toolCallId, createdAt |-> now,
                         settled |-> FALSE, value |-> FALSE, by |-> "none",
                         resolveCalls |-> 0, timer |-> "armed"])

\* TimeoutCallback approving on timeout.
TimeoutCallbackApproves(r) ==
  LET id == promises[r].toolCallId IN
  IF id \in DOMAIN pendingApprovals
  THEN /\ pendingApprovals' = MapDelete(pendingApprovals, id)
       /\ promises' = [PromiseResolve(promises, r, TRUE, "timer")
                         EXCEPT ![r].timer = "fired"]
  ELSE /\ pendingApprovals' = pendingApprovals
       /\ promises' = [promises EXCEPT ![r].timer = "fired"]

\* TimeoutCallback without the lookup: the resolver is called in any case.
TimeoutCallbackNoLookup(r) ==
  /\ pendingApprovals' = MapDelete(pendingApprovals, promises[r].toolCallId)
  /\ promises' = [PromiseResolve(promises, r, FALSE, "timer") EXCEPT ![r].timer = "fired"]

\* The setTimeout callback of request r: it looks the id up again and, when
\* any entry is stored under it, deletes that entry and calls r's resolver.
TimeoutCallback(r) ==
  LET id == promises[r].toolCallId IN
  IF id \in DOMAIN pendingApprovals
  THEN /\ pendingApprovals' = MapDelete(pendingApprovals, id)
       /\ promises' = [PromiseResolve(promises, r, FALSE, "timer")
                         EXCEPT ![r].timer = "fired"]
  ELSE /\ pendingApprovals' = pendingApprovals
       /\ promises' = [promises EXCEPT ![r].timer = "fired"]

\* resolveApproval without pendingApprovals.delete.
resolveApprovalKeepsEntry(toolCallId, approved) ==
  IF toolCallId \notin DOMAIN pendingApprovals
  THEN UNCHANGED <<pendingApprovals, promises>>
  ELSE LET pending == pendingApprovals[toolCallId] IN
       /\ pendingApprovals' = pendingApprovals
       /\ promises' = PromiseResolve(promises, pending.resolve, approved, "resolveApproval")

\* resolveApproval(toolCallId, approved): its effect on the registry and the
\* promises.
resolveApproval(toolCallId, approved) ==
  IF toolCallId \notin DOMAIN pendingApprovals
  THEN UNCHANGED <<pendingApprovals, promises>>
  ELSE LET pending == pendingApprovals[toolCallId] IN
       /\ pendingApprovals' = MapDelete(pendingApprovals, toolCallId)
       /\ promises' = PromiseResolve(promises, pending.resolve, approved, "resolveApproval")

\* resolveApproval(toolCallId, approved): the value it returns.
resolveApprovalReturns(toolCallId) == toolCallId \in DOMAIN pendingApprovals

\* The entries cleanupExpiredApprovals removes at time t.
Expired(t) ==
  {id \in DOMAIN pendingApprovals :
     t - pendingApprovals[id].createdAt > APPROVAL_TIMEOUT_MS}

RECURSIVE ResolveAll(_, _, _)
ResolveAll(ps, rs, who) ==
  IF rs = {} THEN ps
  ELSE LET r == CHOOSE x \in rs : TRUE
       IN ResolveAll(PromiseResolve(ps, r, FALSE, who), rs \ {r}, who)

\* cleanupExpiredApprovals()
cleanupExpiredApprovals ==
  LET gone == Expired(now) IN
  /\ pendingApprovals' = [id \in (DOMAIN pendingApprovals) \ gone |-> pendingApprovals[id]]
  /\ promises' = ResolveAll(promises, {pendingApprovals[id].resolve : id \in gone}, "cleanup")

\* ------------------------------------------------------------------ actions
\* A caller registers a request under toolCallId id.
Request(id, name, dangerous) ==
  /\ Len(promises) < MaxRequests
  /\ now + APPROVAL_TIMEOUT_MS <= MaxNow
  /\ createPendingApproval([type |-> "tool_call", toolCallId |-> id, toolName |-> name,
                            args |-> ArgsOf[name]], dangerous)
  /\ UNCHANGED <<now, connVars, turnVars>>
  /\ UNCHANGED extVars

\* Timers of equal delay fire in the order they were armed, never early.
TimerFire(r) ==
  /\ r \in 1..Len(promises)
  /\ promises[r].timer = "armed"
  /\ now - promises[r].createdAt >= APPROVAL_TIMEOUT_MS
  /\ \A q \in 1..(r - 1) : promises[q].timer = "fired"
  /\ TimeoutCallback(r)
  /\ UNCHANGED <<now, connVars, turnVars>>
  /\ UNCHANGED extVars

Tick ==
  /\ now + TickMs <= MaxNow
  /\ now' = now + TickMs
  /\ UNCHANGED <<pendingApprovals, promises, connVars, turnVars>>
  /\ UNCHANGED extVars

Cleanup ==
  /\ cleanupExpiredApprovals
  /\ UNCHANGED <<now, connVars, turnVars>>
  /\ UNCHANGED extVars

\* The tool.approval case answering a false return with an error event.
ToolApprovalMessageSendsError(ws, toolCallId, approved) ==
  /\ ws \in ClientKeys
  /\ resolveApproval(toolCallId, approved)
  /\ warnLog' = IF ~resolveApprovalReturns(toolCallId) THEN toolCallId ELSE warnLog
  /\ sent' = IF ~resolveApprovalReturns(toolCallId)
             THEN send(sent, ws, [type |-> "error", code |-> "not_found"])
             ELSE sent
  /\ UNCHANGED <<now, clients, turnVars>>
  /\ UNCHANGED extVars

\* websocket.message -> handleClientMessage, case 'tool.approval': a false
\* return is logged with console.warn, nothing is sent.
ToolApprovalMessage(ws, toolCallId, approved) ==
  /\ ws \in ClientKeys
  /\ resolveApproval(toolCallId, approved)
  /\ warnLog' = IF ~resolveApprovalReturns(toolCallId) THEN toolCallId ELSE warnLog
  /\ UNCHANGED <<now, clients, sent, turnVars>>
  /\ UNCHANGED extVars

\* -------------------------------------------------------- tool execution
ExecFailure == [success |-> FALSE, result |-> Undefined, error |-> "exit 1"]
ExecSuccess(v) == [success |-> TRUE, result |-> v, error |-> ""]
\* What executeTool can resolve to, per tool.
ExecResults(name) ==
  IF name = "calc"
  THEN {ExecSuccess(Number("3")), ExecFailure}
  ELSE {ExecSuccess(String("3")), ExecFailure}
UsageOpts ==                             \* result.totalUsage / result.usage
  { [reported |-> FALSE, inputTokens |-> 0, outputTokens |-> 0, totalTokens |-> 0],
    [reported |-> TRUE,  inputTokens |-> 3, outputTokens |-> 2, totalTokens |-> 5] }

\* A tool may also exit with code 0 and print a JSON object that has an
\* 'error' key, such as {"error":"none"}.
ErrorKeyed == JsVal("object", "none", "", "", "", "", "")
ToolOutputs(name) == ExecResults(name) \cup {ExecSuccess(ErrorKeyed)}

\* ------------------------------------------------- streamText (the AI SDK)
Chunk(type, text, toolCallId, toolName, input, output) ==
  [type |-> type, text |-> text, toolCallId |-> toolCallId, toolName |-> toolName,
   input |-> input, output |-> output]

\* The SDK paces the provider's chunks by the room left on fullStream.
SdkOpen == pc = "streaming" /\ ~streamClosed /\ Len(fullStream) < MaxQueue

\* The SDK puts a chunk on fullStream.
Emit(chunk) ==
  /\ fullStream' = Append(fullStream, chunk)
  /\ streamLog' = Append(streamLog, chunk)

\* execute of invocation c has returned `out`: the SDK emits tool-result
\* while the stream is being read, and drops the result otherwise.
SdkToolResult(c, out) ==
  IF pc = "streaming" /\ ~streamClosed
  THEN Emit(Chunk("tool-result", <<>>, calls[c].providerId, calls[c].toolName, "", out))
  ELSE UNCHANGED <<fullStream, streamLog>>

\* --------------------------------------------------- buildAiSdkTools.execute
\* UserRejection with the error of a failed execution.
UserRejectionUntagged(name, args, why) ==
  JsVal("object", "exit 1", why, name, args, "", "")

\* The USER_REJECTION result of the wrapper (why: "denied" or "no_callback").
UserRejection(name, args, why) ==
  JsVal("object", "USER_REJECTION", why, name, args, "", "")

\* onToolApprovalRequired storing the request only when a connection was
\* notified of it.
onToolApprovalRequiredUnregistered(toolCall, dangerous) ==
  /\ sent' = sent
  /\ pendingApprovals' = pendingApprovals
  /\ promises' = Append(promises,
                        [toolCallId |-> toolCall.toolCallId, createdAt |-> now,
                         settled |-> FALSE, value |-> FALSE, by |-> "none",
                         resolveCalls |-> 0, timer |-> "armed"])

\* handleChat's onToolApprovalRequired: notify the session's connection when
\* there is one, then wait on createPendingApproval.
onToolApprovalRequired(toolCall, dangerous) ==
  LET clientWs == getWsForSession(SessionId) IN
  /\ sent' = IF clientWs # 0
             THEN send(sent, clientWs,
                       [type |-> "tool.approval_required",
                        toolCallId |-> toolCall.toolCallId,
                        toolName |-> toolCall.toolName,
                        args |-> toolCall.args, dangerous |-> dangerous])
             ELSE sent
  /\ createPendingApproval(toolCall, dangerous)

\* CallExecuteTool running the tool a second time.
CallExecuteToolTwice(cs, c) ==
  [cs EXCEPT ![c].phase = "executing", ![c].executions = @ + 2]

\* executeTool(discoveredTool, args) is called for invocation c.
CallExecuteTool(cs, c) ==
  [cs EXCEPT ![c].phase = "executing", ![c].executions = @ + 1]

\* The wrapper returns `out` for invocation c.
WrapperReturn(cs, c, out) ==
  [cs EXCEPT ![c].phase = "returned", ![c].output = out]

\* The output the wrapper returns once `approved` is known and it does not
\* go on to executeTool.
RejectionOutput(cs, c) == UserRejection(cs[c].toolName, cs[c].args, "denied")

\* AfterApproval with the approval ignored: the tool runs whatever was answered.
AfterApprovalAlwaysRuns(cs, c, approved) == CallExecuteTool(cs, c)

\* What the wrapper does once `approved` is known.
AfterApproval(cs, c, approved) ==
  IF ~approved
  THEN WrapperReturn(cs, c, RejectionOutput(cs, c))
  ELSE CallExecuteTool(cs, c)

\* ExecutePath without the else-if: a tool that needs approval runs when no
\* callback was supplied.
ExecutePathNoReject(needsApproval, callback) ==
  IF needsApproval /\ callback THEN "ask" ELSE "run"

\* The branch execute takes: ask for approval, reject outright, or run the tool.
ExecutePath(needsApproval, callback) ==
  IF needsApproval /\ callback THEN "ask"
  ELSE IF needsApproval /\ ~callback THEN "reject"
  ELSE "run"

\* execute(args), from its call by the SDK to its first await or return.
ExecuteBegin(c) ==
  LET call == calls[c]
      def == ToolDefs[call.toolName]
      toolCall == [type |-> "tool_call", toolCallId |-> Uuids[uuids + 1],
                   toolName |-> call.toolName, args |-> call.args]
  IN
  /\ c \in 1..Len(calls)
  /\ call.phase = "called"
  /\ uuids' = uuids + 1
  /\ IF ExecutePath(def.requireApproval, hasCallback) = "ask"
     THEN /\ onToolApprovalRequired(toolCall, def.dangerous)
          /\ calls' = [calls EXCEPT ![c].phase = "awaiting",
                                    ![c].uuid = toolCall.toolCallId,
                                    ![c].req = Len(promises) + 1]
          /\ UNCHANGED <<now, clients, warnLog, fullStream, streamLog>>
     ELSE IF ExecutePath(def.requireApproval, hasCallback) = "reject"
     THEN LET out == UserRejection(call.toolName, call.args, "no_callback") IN
          /\ calls' = WrapperReturn([calls EXCEPT ![c].uuid = toolCall.toolCallId], c, out)
          /\ SdkToolResult(c, out)
          /\ UNCHANGED <<gateVars, connVars>>
     ELSE /\ calls' = CallExecuteTool([calls EXCEPT ![c].uuid = toolCall.toolCallId], c)
          /\ UNCHANGED <<gateVars, connVars, fullStream, streamLog>>
  /\ UNCHANGED <<streamClosed, deltas, chatVars>>
  /\ UNCHANGED extVars

\* The await on onToolApprovalRequired returns.
ApprovalSettled(c) ==
  /\ c \in 1..Len(calls)
  /\ calls[c].phase = "awaiting"
  /\ promises[calls[c].req].settled
  /\ calls' = AfterApproval(calls, c, promises[calls[c].req].value)
  /\ IF calls'[c].phase = "returned"
     THEN SdkToolResult(c, calls'[c].output)
     ELSE UNCHANGED <<fullStream, streamLog>>
  /\ UNCHANGED <<gateVars, connVars, uuids, streamClosed, deltas, chatVars>>
  /\ UNCHANGED extVars

\* The await on executeTool returns.
ExecuteToolDone(c, execResult) ==
  /\ c \in 1..Len(calls)
  /\ calls[c].phase = "executing"
  /\ execResult \in ToolOutputs(calls[c].toolName)
  /\ calls' = WrapperReturn(calls, c,
                            IF ~execResult.success
                            THEN JsVal("object", execResult.error, "", "", "", "", "")
                            ELSE execResult.result)
  /\ SdkToolResult(c, calls'[c].output)
  /\ UNCHANGED <<gateVars, connVars, uuids, streamClosed, deltas, chatVars>>
  /\ UNCHANGED extVars

\* ------------------------------------------------ the provider, through the SDK
SdkTextDelta(text) ==
  /\ SdkOpen
  /\ deltas < MaxDeltas
  /\ deltas' = deltas + 1
  /\ Emit(Chunk("text-delta", text, "", "", "", Undefined))
  /\ UNCHANGED <<gateVars, connVars, calls, uuids, streamClosed, chatVars>>
  /\ UNCHANGED extVars

\* The provider calls a tool: the SDK emits tool-call and will call execute.
SdkToolCall(name) ==
  LET id == ProviderIds[Len(calls) + 1] IN
  /\ SdkOpen
  /\ Len(calls) < MaxCalls
  /\ calls' = Append(calls, [providerId |-> id, toolName |-> name, args |-> ArgsOf[name],
                             phase |-> "called", uuid |-> "", req |-> 0,
                             output |-> Undefined, executions |-> 0])
  /\ Emit(Chunk("tool-call", <<>>, id, name, ArgsOf[name], Undefined))
  /\ UNCHANGED <<gateVars, connVars, uuids, streamClosed, deltas, chatVars>>
  /\ UNCHANGED extVars

\* stepCountIs(stepCount) with one step finished more than asked for.
stepCountIsOneLate(stepCount, steps) == steps = stepCount + 1

\* stepCountIs(stepCount), evaluated by the SDK when a step has finished with
\* tool results: steps.length === stepCount.
stepCountIs(stepCount, steps) == steps = stepCount

\* A step of the model that answers the tool results so far with another
\* tool call; the SDK starts the step unless stopWhen holds for the steps
\* finished. Every step so far has made one call.
SdkNextStep(name) ==
  LET id == ProviderIds[Len(calls) + 1] IN
  /\ SdkOpen
  /\ \A c \in 1..Len(calls) : calls[c].phase = "returned"
  /\ ~stepCountIs(StopWhenSteps, Len(calls))
  /\ calls' = Append(calls, [providerId |-> id, toolName |-> name, args |-> ArgsOf[name],
                             phase |-> "called", uuid |-> "", req |-> 0,
                             output |-> Undefined, executions |-> 0])
  /\ Emit(Chunk("tool-call", <<>>, id, name, ArgsOf[name], Undefined))
  /\ UNCHANGED <<gateVars, connVars, uuids, streamClosed, deltas, chatVars>>
  /\ UNCHANGED extVars

\* The provider stops and every tool result is out: the SDK closes the stream.
SdkClose ==
  /\ pc = "streaming"
  /\ ~streamClosed
  /\ \A c \in 1..Len(calls) : calls[c].phase = "returned"
  /\ streamClosed' = TRUE
  /\ UNCHANGED <<gateVars, connVars, calls, uuids, fullStream, deltas, streamLog, chatVars>>
  /\ UNCHANGED extVars

\* ---------------------------------------------------------------- streamChat
Event(type, content, toolCallId, toolName, args, result, usage, message) ==
  [type |-> type, content |-> content, toolCallId |-> toolCallId, toolName |-> toolName,
   args |-> args, result |-> result, usage |-> usage, message |-> message]
NoUsage == [promptTokens |-> 0, completionTokens |-> 0, totalTokens |-> 0]

Block(type, text, toolCallId, toolName, args, result, isError) ==
  [type |-> type, text |-> text, toolCallId |-> toolCallId, toolName |-> toolName,
   args |-> args, result |-> result, isError |-> isError]
TextBlock(text) == Block("text", text, "", "", "", Undefined, FALSE)

\* if (currentText) { contentBlocks.push({type:'text', text: currentText}) }
FlushText(blocks, text) == IF text # <<>> THEN Append(blocks, TextBlock(text)) ELSE blocks

\* The result streamChat extracts from delta.output.
DecodeOutput(output) ==
  IF output.kind = "string"
  THEN IF output.data \in JsonTexts THEN Number(output.data) ELSE output
  ELSE IF output.kind = "object" /\ output.valueKey # ""
  THEN Number(output.valueKey)
  ELSE output

\* !!(result && typeof result === 'object' && 'error' in result)
IsErrorResult(result) == result.kind = "object" /\ result.error # ""

\* streamChat up to the for-await loop; getModel throws without an API key.
StartTurn(callback, apiKey) ==
  /\ pc = "idle"
  /\ hasCallback' = callback
  /\ pc' = IF apiKey THEN "streaming" ELSE "failed"
  /\ UNCHANGED <<gateVars, connVars, sdkVars, currentText, contentBlocks, events>>
  /\ UNCHANGED extVars

\* ChunkEvents with the yield of tool_call left out.
ChunkEventsNoToolCall(delta) ==
  CASE delta.type = "text-delta" ->
         IF delta.text # <<>>
         THEN << Event("delta", delta.text, "", "", "", Undefined, NoUsage, <<>>) >>
         ELSE << >>
    [] delta.type = "tool-call" -> << >>
    [] delta.type = "tool-result" ->
         << Event("tool_result", <<>>, delta.toolCallId, delta.toolName, "",
                  DecodeOutput(delta.output), NoUsage, <<>>) >>

\* The events one iteration of the for-await loop yields for chunk `delta`.
ChunkEvents(delta) ==
  CASE delta.type = "text-delta" ->
         IF delta.text # <<>>
         THEN << Event("delta", delta.text, "", "", "", Undefined, NoUsage, <<>>) >>
         ELSE << >>
    [] delta.type = "tool-call" ->
         << Event("tool_call", <<>>, delta.toolCallId, delta.toolName, delta.input,
                  Undefined, NoUsage, <<>>) >>
    [] delta.type = "tool-result" ->
         << Event("tool_result", <<>>, delta.toolCallId, delta.toolName, "",
                  DecodeOutput(delta.output), NoUsage, <<>>) >>

\* currentText after the iteration.
ChunkText(text, delta) ==
  CASE delta.type = "text-delta" -> text \o delta.text
    [] delta.type = "tool-call" -> <<>>
    [] delta.type = "tool-result" -> text

\* contentBlocks after the iteration.
ChunkBlocks(blocks, text, delta) ==
  CASE delta.type = "text-delta" -> blocks
    [] delta.type = "tool-call" ->
         Append(FlushText(blocks, text),
                Block("tool_call", <<>>, delta.toolCallId, delta.toolName, delta.input,
                      Undefined, FALSE))
    [] delta.type = "tool-result" ->
         LET result == DecodeOutput(delta.output) IN
         Append(blocks, Block("tool_result", <<>>, delta.toolCallId, delta.toolName, "",
                              result, IsErrorResult(result)))

\* ------------------------------------------- handleChat, consuming streamChat
\* The message handleChat broadcasts for an event of the turn on SessionId.
Wire(ev) ==
  CASE ev.type = "delta" ->
         [type |-> "chat.delta", sessionId |-> SessionId, messageId |-> AssistantMsgId,
          delta |-> ev.content]
    [] ev.type = "tool_call" ->
         [type |-> "chat.tool_call", sessionId |-> SessionId, messageId |-> AssistantMsgId,
          toolCall |-> [type |-> "tool_call", toolCallId |-> ev.toolCallId,
                        toolName |-> ev.toolName, args |-> ev.args]]
    [] ev.type = "tool_result" ->
         [type |-> "chat.tool_result", sessionId |-> SessionId,
          messageId |-> AssistantMsgId, toolCallId |-> ev.toolCallId,
          toolName |-> ev.toolName, result |-> ev.result]
    [] ev.type = "usage" ->
         [type |-> "chat.usage", sessionId |-> SessionId, usage |-> ev.usage]
    [] ev.type = "complete" ->
         [type |-> "chat.complete", sessionId |-> SessionId,
          message |-> [id |-> AssistantMsgId, role |-> "assistant",
                       content |-> ev.message]]

\* updateSession(sessionId, {promptTokens, completionTokens, totalTokens}) of
\* the usage case, skipped when getSession finds nothing.
AddUsage(ss, usage) ==
  IF SessionId \in DOMAIN ss
  THEN [ss EXCEPT ![SessionId].promptTokens = @ + usage.promptTokens,
                  ![SessionId].completionTokens = @ + usage.completionTokens,
                  ![SessionId].totalTokens = @ + usage.totalTokens]
  ELSE ss

\* The body of handleChat's for-await loop for one event; st.threw is set
\* when a ws.send inside broadcast throws.
handleEvent(st, ev) ==
  LET ms == IF ev.type = "complete"
            THEN createMessage(st.messages, AssistantMsgId, SessionId, "assistant",
                               ev.message)
            ELSE st.messages
      b == broadcast(st.sent, Wire(ev))
  IN [sent |-> b.out, messages |-> ms,
      sessions |-> IF ev.type = "usage" /\ ~b.threw
                   THEN AddUsage(st.sessions, ev.usage) ELSE st.sessions,
      threw |-> b.threw, n |-> st.n + 1]

\* The events streamChat yields one after the other, each handled before the
\* next is asked for; the loop ends at the first one whose handling throws.
RECURSIVE handleEvents(_, _)
handleEvents(st, evs) ==
  IF evs = <<>> \/ st.threw THEN st
  ELSE handleEvents(handleEvent(st, Head(evs)), Tail(evs))

\* handleChat's catch block that sends nothing.
catchChatErrorSilent(out, ws) == out

\* handleChat's catch block: send(ws, {type:'error', code:'chat_error'}).
catchChatError(out, ws) == trySend(out, ws, ErrorMsg("chat_error")).out

\* What the caller of streamChat does with the events `evs`: handleChat
\* (chatWs # 0) handles them and catches what is thrown; any other caller
\* only takes them.
Consume(evs) ==
  LET st0 == [sent |-> sent, messages |-> messages, sessions |-> sessions,
              threw |-> FALSE, n |-> 0]
      st == handleEvents(st0, evs)
  IN IF chatWs = 0 THEN [st0 EXCEPT !.n = Len(evs)]
     ELSE IF st.threw THEN [st EXCEPT !.sent = catchChatError(st.sent, chatWs)]
     ELSE st

\* One iteration of the for-await loop over result.fullStream.
ReadChunk ==
  /\ pc = "streaming"
  /\ fullStream # <<>>
  /\ LET delta == Head(fullStream)
         h == Consume(ChunkEvents(delta)) IN
     /\ fullStream' = Tail(fullStream)
     /\ events' = events \o SubSeq(ChunkEvents(delta), 1, h.n)
     /\ currentText' = ChunkText(currentText, delta)
     /\ contentBlocks' = ChunkBlocks(contentBlocks, currentText, delta)
     /\ sent' = h.sent
     /\ messages' = h.messages
     /\ sessions' = h.sessions
     /\ pc' = IF h.threw THEN "aborted" ELSE pc
  /\ UNCHANGED <<gateVars, clients, warnLog, calls, uuids, streamClosed, deltas, streamLog,
                 hasCallback>>
  /\ UNCHANGED <<readyState, sendThrows, chatWs, connOps, uiVars, fnVars>>

\* Reading fullStream (or awaiting the usage promises) throws.
StreamError ==
  /\ pc = "streaming"
  /\ pc' = "failed"
  /\ sent' = IF chatWs = 0 THEN sent ELSE catchChatError(sent, chatWs)
  /\ UNCHANGED <<gateVars, clients, warnLog, sdkVars, hasCallback, currentText,
                 contentBlocks, events>>
  /\ UNCHANGED extVars

\* FinalEvents with the contentBlocks passed on as they are.
FinalEventsNoSubstitute(blocks, usageData) ==
  LET complete == Event("complete", <<>>, "", "", "", Undefined, NoUsage, blocks)
  IN IF usageData.reported
     THEN << Event("usage", <<>>, "", "", "", Undefined,
                   [promptTokens |-> usageData.inputTokens,
                    completionTokens |-> usageData.outputTokens,
                    totalTokens |-> usageData.totalTokens], <<>>),
             complete >>
     ELSE << complete >>

\* FinalEvents with complete yielded before usage.
FinalEventsCompleteFirst(blocks, usageData) ==
  LET content == IF Len(blocks) > 0 THEN blocks ELSE <<TextBlock(<<>>)>>
      complete == Event("complete", <<>>, "", "", "", Undefined, NoUsage, content)
  IN IF usageData.reported
     THEN << complete,
             Event("usage", <<>>, "", "", "", Undefined,
                   [promptTokens |-> usageData.inputTokens,
                    completionTokens |-> usageData.outputTokens,
                    totalTokens |-> usageData.totalTokens], <<>>) >>
     ELSE << complete >>

\* The events after the loop: usage when usageData is set, then complete.
FinalEvents(blocks, usageData) ==
  LET content == IF Len(blocks) > 0 THEN blocks ELSE <<TextBlock(<<>>)>>
      complete == Event("complete", <<>>, "", "", "", Undefined, NoUsage, content)
  IN IF usageData.reported
     THEN << Event("usage", <<>>, "", "", "", Undefined,
                   [promptTokens |-> usageData.inputTokens,
                    completionTokens |-> usageData.outputTokens,
                    totalTokens |-> usageData.totalTokens], <<>>),
             complete >>
     ELSE << complete >>

\* The loop has ended: flush the text, yield usage and complete.
EndOfStream(totalUsage, usage) ==
  /\ pc = "streaming"
  /\ fullStream = <<>>
  /\ streamClosed
  /\ contentBlocks' = FlushText(contentBlocks, currentText)
  /\ LET evs == FinalEvents(contentBlocks',
                            IF totalUsage.reported THEN totalUsage ELSE usage)
         h == Consume(evs) IN
     /\ events' = events \o SubSeq(evs, 1, h.n)
     /\ sent' = h.sent
     /\ messages' = h.messages
     /\ sessions' = h.sessions
     /\ pc' = IF h.threw THEN "aborted" ELSE "done"
  /\ UNCHANGED <<gateVars, clients, warnLog, sdkVars, hasCallback, currentText>>
  /\ UNCHANGED <<readyState, sendThrows, chatWs, connOps, uiVars, fnVars>>

\* ---------------------------------------------------------------- handleChat
\* handleChat's checks with the API key check left out.
chatPrecheckNoKeyCheck(sessionId) ==
  IF sessionId \notin DOMAIN sessions THEN "not_found"
  ELSE LET session == sessions[sessionId]
           preconfig == IF session.preconfigId # "" THEN getPreconfig(session.preconfigId)
                        ELSE getDefaultPreconfig
       IN IF preconfig.null THEN "no_preconfig" ELSE ""

\* handleChat's checks before anything is stored or broadcast: the code of
\* the error event it answers with, "" when the turn may start.
chatPrecheck(sessionId) ==
  IF sessionId \notin DOMAIN sessions THEN "not_found"
  ELSE LET session == sessions[sessionId]
           preconfig == IF session.preconfigId # "" THEN getPreconfig(session.preconfigId)
                        ELSE getDefaultPreconfig
       IN IF preconfig.null THEN "no_preconfig"
          ELSE IF ResolveProvider(session, preconfig) \notin ApiKeyProviders
          THEN "no_api_key"
          ELSE ""

\* A chat.message from ws: handleChat up to the first event of streamChat.
\* modelOk: getModel finds the model (else streamChat throws at once).
HandleChat(ws, sessionId, modelOk) ==
  /\ ws \in ClientKeys
  /\ readyState[ws] = "OPEN"
  /\ pc = "idle"
  /\ chatWs = 0
  /\ connOps < MaxConnOps
  /\ connOps' = connOps + 1
  /\ LET code == chatPrecheck(sessionId)
         userMessage == [id |-> UserMsgId, role |-> "user", content |-> <<TextBlock(<<"q">>)>>]
         b1 == broadcast(sent, [type |-> "chat.user_message", sessionId |-> sessionId,
                                message |-> userMessage])
         b2 == broadcast(b1.out, [type |-> "chat.start", sessionId |-> sessionId,
                                  messageId |-> AssistantMsgId])
     IN IF code # ""
        THEN /\ sent' = trySend(sent, ws, ErrorMsg(code)).out
             /\ UNCHANGED <<messages, chatWs, pc, hasCallback>>
        ELSE /\ messages' = createMessage(messages, UserMsgId, sessionId, "user",
                                          userMessage.content)
             /\ IF b1.threw \/ b2.threw
                THEN \* handleChat rejects: websocket.message answers parse_error
                     /\ sent' = trySend(IF b1.threw THEN b1.out ELSE b2.out, ws,
                                        ErrorMsg("parse_error")).out
                     /\ UNCHANGED <<chatWs, pc, hasCallback>>
                ELSE /\ chatWs' = ws
                     /\ hasCallback' = TRUE
                     /\ pc' = IF modelOk THEN "streaming" ELSE "failed"
                     /\ sent' = IF modelOk THEN b2.out ELSE catchChatError(b2.out, ws)
  /\ UNCHANGED <<gateVars, clients, warnLog, sdkVars, currentText, contentBlocks, events>>
  /\ UNCHANGED <<readyState, sendThrows, sessions, uiVars, fnVars>>

\* websocket.open(ws)
Open(ws) ==
  /\ readyState[ws] = "CLOSED"
  /\ connOps < MaxConnOps
  /\ connOps' = connOps + 1
  /\ clients' = ClientsSet(clients, ws, "")
  /\ readyState' = [readyState EXCEPT ![ws] = "OPEN"]
  /\ UNCHANGED <<gateVars, sent, warnLog, turnVars, sendThrows, sessions, messages, chatWs,
                 uiVars, fnVars>>

\* The socket of ws goes down; its close handler has not run yet.
Disconnect(ws) ==
  /\ readyState[ws] = "OPEN"
  /\ readyState' = [readyState EXCEPT ![ws] = "CLOSING"]
  /\ UNCHANGED <<gateVars, connVars, turnVars, sendThrows, sessions, messages, chatWs,
                 connOps, uiVars, fnVars>>

\* websocket.close(ws)
Close(ws) ==
  /\ readyState[ws] = "CLOSING"
  /\ clients' = ClientsDelete(clients, ws)
  /\ readyState' = [readyState EXCEPT ![ws] = "CLOSED"]
  /\ UNCHANGED <<gateVars, sent, warnLog, turnVars, sendThrows, sessions, messages, chatWs,
                 connOps, uiVars, fnVars>>

\* A session.resume from ws.
SessionResume(ws, sessionId) ==
  /\ ws \in ClientKeys
  /\ readyState[ws] = "OPEN"
  /\ connOps < MaxConnOps
  /\ connOps' = connOps + 1
  /\ IF sessionId \notin DOMAIN sessions
     THEN /\ sent' = trySend(sent, ws, ErrorMsg("not_found")).out
          /\ UNCHANGED clients
     ELSE /\ clients' = ClientsSet(clients, ws, sessionId)
          /\ sent' = trySend(sent, ws, [type |-> "session.resumed",
                                        sessionId |-> sessionId]).out
  /\ UNCHANGED <<gateVars, warnLog, turnVars, readyState, sendThrows, sessions, messages,
                 chatWs, uiVars, fnVars>>

\* The types handleClientMessage has a case for.
ClientCommands ==
  {"session.create", "session.resume", "session.update", "session.update_model",
   "session.close", "chat.message", "tool.approval"}

\* Inbound texts that are no client command: not JSON, JSON that is null, a
\* number, an object without type, an object with a type of no case.
InboundTexts == {"{oops", "null", "7", "{}", "{type:ping}"}

\* JSON.parse(message.toString()): whether it throws, whether the value is
\* null, and the value's type property ("" when undefined).
ParseInbound(text) ==
  [threw |-> text = "{oops", isNull |-> text = "null",
   type |-> IF text = "{type:ping}" THEN "ping" ELSE ""]

\* InboundError with no default case in the switch.
InboundErrorNoDefault(text) ==
  IF ParseInbound(text).threw \/ ParseInbound(text).isNull THEN "parse_error" ELSE ""

\* The error code websocket.message answers the text with: parse_error when
\* JSON.parse or the read of msg.type throws, unknown_message from the
\* default case, "" when the type has a case.
InboundError(text) ==
  LET msg == ParseInbound(text) IN
  IF msg.threw \/ msg.isNull THEN "parse_error"
  ELSE IF msg.type \notin ClientCommands THEN "unknown_message"
  ELSE ""

\* websocket.message(ws, text) for a text that is no client command; when
\* the send of the default case throws, the catch block sends parse_error.
WebsocketMessage(ws, text) ==
  /\ ws \in ClientKeys
  /\ readyState[ws] = "OPEN"
  /\ connOps < MaxConnOps
  /\ connOps' = connOps + 1
  /\ LET code == InboundError(text)
         first == trySend(sent, ws, ErrorMsg(code))
     IN sent' = IF code = "" THEN sent
                ELSE IF first.threw /\ code = "unknown_message"
                THEN trySend(first.out, ws, ErrorMsg("parse_error")).out
                ELSE first.out
  /\ UNCHANGED <<gateVars, clients, warnLog, turnVars, readyState, sendThrows, sessions,
                 messages, chatWs, uiVars, fnVars>>

\* From now on ws.send of this connection throws.
SendBreaks(ws) ==
  /\ readyState[ws] = "OPEN"
  /\ ws \notin sendThrows
  /\ sendThrows' = sendThrows \cup {ws}
  /\ UNCHANGED <<gateVars, connVars, turnVars, readyState, sessions, messages, chatWs,
                 connOps, uiVars, fnVars>>

\* ------------------------------------------- client: handleServerMessage
\* A content block as the client holds it; pending is "true", "false" or
\* "absent", an absent needsApproval or dangerous flag is FALSE.
ClientBlock(type, text, toolCallId, toolName, args, result, isError, pending, needsApproval, dangerous) ==
  [type |-> type, text |-> text, toolCallId |-> toolCallId, toolName |-> toolName,
   args |-> args, result |-> result, isError |-> isError, pending |-> pending,
   needsApproval |-> needsApproval, dangerous |-> dangerous]
ClientText(t) == ClientBlock("text", t, "", "", "", Undefined, FALSE, "absent", FALSE, FALSE)

\* sessionMessages.map(m => m.id === id ? f(m) : m), f given by its content.
WithContent(m, content) == [id |-> m.id, role |-> m.role, content |-> content]

\* case 'chat.user_message'
onUserMessage(msgs, msg) ==
  Append(msgs, [id |-> msg.message.id, role |-> msg.message.role,
                content |-> <<ClientText(msg.message.content[1].text)>>])

\* case 'chat.start'
onChatStart(msgs, msg) ==
  Append(msgs, [id |-> msg.messageId, role |-> "assistant",
                content |-> <<ClientText(<<>>)>>])

\* case 'chat.delta': the content becomes one text block.
onChatDelta(msgs, msg) ==
  [i \in 1..Len(msgs) |->
     IF msgs[i].id = msg.messageId
     THEN LET first == msgs[i].content[1]
              textSoFar == IF first.type = "text" THEN first.text ELSE <<>>
          IN WithContent(msgs[i], <<ClientText(textSoFar \o msg.delta)>>)
     ELSE msgs[i]]

\* case 'chat.tool_call'
onChatToolCall(msgs, msg) ==
  [i \in 1..Len(msgs) |->
     IF msgs[i].id = msg.messageId
     THEN LET c == msgs[i].content
              existingToolCall ==
                \E j \in 1..Len(c) : /\ c[j].type = "tool_call"
                                     /\ c[j].toolName = msg.toolCall.toolName
                                     /\ c[j].needsApproval
          IN IF existingToolCall THEN msgs[i]
             ELSE WithContent(msgs[i],
                    Append(c, ClientBlock("tool_call", <<>>, msg.toolCall.toolCallId,
                                          msg.toolCall.toolName, msg.toolCall.args,
                                          Undefined, FALSE, "true", FALSE, FALSE)))
     ELSE msgs[i]]

\* case 'chat.tool_result'
onChatToolResult(msgs, msg) ==
  [i \in 1..Len(msgs) |->
     IF msgs[i].id = msg.messageId
     THEN LET c == msgs[i].content
              hasToolCall ==
                \E j \in 1..Len(c) : c[j].type = "tool_call" /\ c[j].toolCallId = msg.toolCallId
              updatedContent ==
                [j \in 1..Len(c) |->
                   IF c[j].type = "tool_call" /\ c[j].toolCallId = msg.toolCallId
                   THEN [c[j] EXCEPT !.pending = "absent"] ELSE c[j]]
          IN IF hasToolCall
             THEN WithContent(msgs[i],
                    Append(updatedContent,
                           ClientBlock("tool_result", <<>>, msg.toolCallId, msg.toolName, "",
                                       msg.result, IsErrorResult(msg.result), "absent",
                                       FALSE, FALSE)))
             ELSE msgs[i]
     ELSE msgs[i]]

\* case 'tool.approval_required': in the last assistant message, the first
\* tool_call block of that toolName without needsApproval is updated; when
\* there is none a new block is added.
onApprovalRequired(msgs, msg) ==
  LET assistants == {i \in 1..Len(msgs) : msgs[i].role = "assistant"} IN
  IF assistants = {} THEN msgs
  ELSE LET i == CHOOSE x \in assistants : \A y \in assistants : y <= x
           c == msgs[i].content
           hits == {j \in 1..Len(c) : /\ c[j].type = "tool_call"
                                      /\ c[j].toolName = msg.toolName
                                      /\ ~c[j].needsApproval}
       IN IF hits # {}
          THEN LET j == CHOOSE x \in hits : \A y \in hits : x <= y IN
               [msgs EXCEPT ![i] = WithContent(@,
                  [c EXCEPT ![j] = [@ EXCEPT !.toolCallId = msg.toolCallId,
                                             !.needsApproval = TRUE,
                                             !.dangerous = msg.dangerous,
                                             !.pending = "false"]])]
          ELSE [msgs EXCEPT ![i] = WithContent(@,
                  Append(c, ClientBlock("tool_call", <<>>, msg.toolCallId, msg.toolName,
                                        msg.args, Undefined, FALSE, "false", TRUE,
                                        msg.dangerous)))]

\* A block of a message of the server as the client holds it: without
\* pending, needsApproval and dangerous.
ClientBlockOf(b) ==
  ClientBlock(b.type, b.text, b.toolCallId, b.toolName, b.args, b.result, b.isError,
              "absent", FALSE, FALSE)
ClientMessageOf(m) ==
  [id |-> m.id, role |-> m.role,
   content |-> [j \in 1..Len(m.content) |-> ClientBlockOf(m.content[j])]]

\* case 'chat.complete' keeping a message that shows an approval request.
onChatCompleteKeepingRequests(msgs, msg) ==
  [i \in 1..Len(msgs) |->
     IF /\ msgs[i].id = msg.message.id
        /\ \A j \in 1..Len(msgs[i].content) : ~msgs[i].content[j].needsApproval
     THEN ClientMessageOf(msg.message) ELSE msgs[i]]

\* case 'chat.complete': sessionMessages.map(m => m.id === msg.message.id ? msg.message : m)
onChatComplete(msgs, msg) ==
  [i \in 1..Len(msgs) |->
     IF msgs[i].id = msg.message.id THEN ClientMessageOf(msg.message) ELSE msgs[i]]

\* handleServerMessage(msg) on messagesBySession[currentSession.id]
handleServerMessage(msgs, msg) ==
  CASE msg.type = "chat.user_message" -> onUserMessage(msgs, msg)
    [] msg.type = "chat.start" -> onChatStart(msgs, msg)
    [] msg.type = "chat.delta" -> onChatDelta(msgs, msg)
    [] msg.type = "chat.tool_call" -> onChatToolCall(msgs, msg)
    [] msg.type = "chat.tool_result" -> onChatToolResult(msgs, msg)
    [] msg.type = "tool.approval_required" -> onApprovalRequired(msgs, msg)
    [] msg.type = "chat.complete" -> onChatComplete(msgs, msg)
    [] OTHER -> msgs

\* handleToolApproval(toolCallId, approved): the flags of the answered block
\* are removed, pending becomes `approved`.
handleToolApproval(msgs, toolCallId, approved) ==
  [i \in 1..Len(msgs) |->
     WithContent(msgs[i],
       [j \in 1..Len(msgs[i].content) |->
          LET b == msgs[i].content[j] IN
          IF b.type = "tool_call" /\ b.toolCallId = toolCallId
          THEN [b EXCEPT !.needsApproval = FALSE, !.dangerous = FALSE,
                         !.pending = IF approved THEN "true" ELSE "false"]
          ELSE b])]

\* The messages the server sends about the k-th tool call of the turn.
ToolCallMsg(k) ==
  Wire(Event("tool_call", <<>>, calls[k].providerId, calls[k].toolName, calls[k].args,
             Undefined, NoUsage, <<>>))
ToolResultMsg(k) ==
  Wire(Event("tool_result", <<>>, calls[k].providerId, calls[k].toolName, "",
             calls[k].output, NoUsage, <<>>))
ApprovalMsg(k) ==
  [type |-> "tool.approval_required", toolCallId |-> calls[k].uuid,
   toolName |-> calls[k].toolName, args |-> calls[k].args,
   dangerous |-> ToolDefs[calls[k].toolName].dangerous]
DeltaMsg(t) == Wire(Event("delta", t, "", "", "", Undefined, NoUsage, <<>>))
UserMessageMsg ==
  [type |-> "chat.user_message", sessionId |-> SessionId,
   message |-> [id |-> UserMsgId, role |-> "user", content |-> <<TextBlock(<<"q">>)>>]]
ChatStartMsg == [type |-> "chat.start", sessionId |-> SessionId, messageId |-> AssistantMsgId]

Got(msg) == \E i \in 1..Len(rcvd) : rcvd[i] = msg
GotType(type) == {i \in 1..Len(rcvd) : rcvd[i].type = type}

\* What the connection can deliver next, in the order the server sends:
\* chat.user_message and chat.start first, the tool calls in the order of
\* the stream, the approval requests in the order execute is entered, a
\* result after its tool call and not before its approval request.
CanToolCall(k) ==
  /\ Got(ChatStartMsg) /\ ~Got(ToolCallMsg(k))
  /\ k > 1 => Got(ToolCallMsg(k - 1))
CanApproval(k) ==
  /\ Got(ChatStartMsg) /\ ~Got(ApprovalMsg(k)) /\ ~Got(ToolResultMsg(k))
  /\ ToolDefs[calls[k].toolName].requireApproval
  /\ \A j \in (k + 1)..Len(calls) : ~Got(ApprovalMsg(j))
CanToolResult(k) == Got(ToolCallMsg(k)) /\ ~Got(ToolResultMsg(k))

Deliverable ==
  (IF rcvd = <<>> THEN {UserMessageMsg} ELSE {})
    \cup (IF rcvd = <<UserMessageMsg>> THEN {ChatStartMsg} ELSE {})
    \cup (IF Got(ChatStartMsg) /\ Cardinality(GotType("chat.delta")) < ClientDeltas
          THEN {DeltaMsg(<<Letters[Cardinality(GotType("chat.delta")) + 1]>>)} ELSE {})
    \cup {ToolCallMsg(k) : k \in {x \in 1..Len(calls) : CanToolCall(x)}}
    \cup {ApprovalMsg(k) : k \in {x \in 1..Len(calls) : CanApproval(x)}}
    \cup {ToolResultMsg(k) : k \in {x \in 1..Len(calls) : CanToolResult(x)}}

\* ws.onmessage: the client handles the next message of the connection.
ClientReceive(msg) ==
  /\ msg \in Deliverable
  /\ clientMsgs' = handleServerMessage(clientMsgs, msg)
  /\ rcvd' = Append(rcvd, msg)
  /\ UNCHANGED <<gateVars, connVars, turnVars, srvVars, groupIn, groupOut, fnVars>>

\* The user answers the approval request shown for a block.
UserAnswers(toolCallId, approved) ==
  /\ \E i \in 1..Len(clientMsgs) : \E j \in 1..Len(clientMsgs[i].content) :
        LET b == clientMsgs[i].content[j] IN
        b.type = "tool_call" /\ b.toolCallId = toolCallId /\ b.needsApproval
  /\ clientMsgs' = handleToolApproval(clientMsgs, toolCallId, approved)
  /\ UNCHANGED <<gateVars, connVars, turnVars, srvVars, rcvd, groupIn, groupOut, fnVars>>

\* ws.onmessage of the client of connection ws: it handles the next of the
\* messages the server sent on the connection.
ClientHandleNext(ws) ==
  /\ Len(rcvd) < Len(sent[ws])
  /\ LET msg == sent[ws][Len(rcvd) + 1] IN
     /\ clientMsgs' = handleServerMessage(clientMsgs, msg)
     /\ rcvd' = Append(rcvd, msg)
  /\ UNCHANGED <<gateVars, connVars, turnVars, srvVars, groupIn, groupOut, fnVars>>

\* The tool calls of the turn the client is told about.
PlannedCall(k, name) ==
  [providerId |-> ProviderIds[k], toolName |-> name, args |-> ArgsOf[name],
   phase |-> "returned", uuid |-> Uuids[k], req |-> 0,
   output |-> Number("3"), executions |-> 0]
CallPlans ==
  UNION {{[k \in 1..n |-> PlannedCall(k, p[k])] : p \in [1..n -> ToolNames]} :
           n \in 1..ClientCalls}

\* ------------------------------------ Message: groupToolCallsAndResults
\* toolResult: null of a grouped_tool item.
NoToolResult == ClientBlock("null", <<>>, "", "", "", Undefined, FALSE, "absent", FALSE, FALSE)
GroupedTool(toolCall, toolResult) ==
  [type |-> "grouped_tool", toolCall |-> toolCall, toolResult |-> toolResult]

\* First pass: toolResultMap.get(id) ?? null, the last tool_result block
\* set under the id.
toolResultMapGet(content, id) ==
  LET at == {i \in 1..Len(content) :
               content[i].type = "tool_result" /\ content[i].toolCallId = id}
  IN IF at = {} THEN NoToolResult
     ELSE content[CHOOSE i \in at : \A j \in at : j <= i]

\* Second pass from block i on, with the items pushed and usedResultIds.
RECURSIVE groupSecondPass(_, _, _, _)
groupSecondPass(content, i, result, usedResultIds) ==
  IF i > Len(content) THEN result
  ELSE LET block == content[i] IN
       IF block.type = "tool_call"
       THEN LET toolResult == toolResultMapGet(content, block.toolCallId) IN
            groupSecondPass(content, i + 1,
                            Append(result, GroupedTool(block, toolResult)),
                            IF toolResult # NoToolResult
                            THEN usedResultIds \cup {block.toolCallId}
                            ELSE usedResultIds)
       ELSE IF block.type = "tool_result" /\ block.toolCallId \in usedResultIds
       THEN groupSecondPass(content, i + 1, result, usedResultIds)
       ELSE groupSecondPass(content, i + 1, Append(result, block), usedResultIds)

groupDroppingOrphans(content) ==
  SelectSeq(groupSecondPass(content, 1, <<>>, {}), LAMBDA item : item.type # "tool_result")

groupToolCallsAndResults(content) == groupSecondPass(content, 1, <<>>, {})

\* The blocks a message content is made of.
GroupIds == {"c1", "c2"}
GroupBlocks ==
  {ClientText(<<"a">>)}
    \cup {ClientBlock("tool_call", <<>>, id, "calc", ArgsOf["calc"], Undefined, FALSE,
                      "absent", FALSE, FALSE) : id \in GroupIds}
    \cup {ClientBlock("tool_result", <<>>, id, "calc", "", r, FALSE, "absent", FALSE, FALSE) :
            id \in GroupIds, r \in {Number("3"), String("x")}}
Contents == UNION {[1..n -> GroupBlocks] : n \in 0..MaxBlocks}

\* MessageComponent renders message.content: groupOut holds the value
\* groupToolCallsAndResults returned, once it has.
Render ==
  /\ groupOut = <<>>
  /\ groupOut' = <<groupToolCallsAndResults(groupIn)>>
  /\ UNCHANGED <<gateVars, connVars, turnVars, srvVars, clientMsgs, rcvd, groupIn, fnVars>>

\* ------------------------------------------------- convertToAiSdkMessages
\* A message of the result: content is a string (text) or an array of
\* tool-result parts (parts).
AiMessage(role, kind, text, parts) ==
  [role |-> role, kind |-> kind, text |-> text, parts |-> parts]

\* The tool-result part pushed for a tool_result block: the output wraps
\* JSON.stringify(block.result) as text for an error, block.result as json
\* otherwise.
ToolResultPart(block) ==
  [type |-> "tool-result", toolCallId |-> block.toolCallId, toolName |-> block.toolName,
   output |-> IF block.isError
              THEN [type |-> "text", value |-> [jsonTextOf |-> block.result]]
              ELSE [type |-> "json", value |-> block.result]]

\* textBlocks.join('\n\n')
RECURSIVE JoinTexts(_)
JoinTexts(texts) ==
  IF texts = <<>> THEN <<>>
  ELSE IF Len(texts) = 1 THEN texts[1]
  ELSE texts[1] \o <<"\n\n">> \o JoinTexts(Tail(texts))

\* msg.content sorted into textBlocks and toolResultBlocks.
textBlocksOf(msg) ==
  LET bs == SelectSeq(msg.content, LAMBDA b : b.type = "text")
  IN [i \in 1..Len(bs) |-> bs[i].text]
toolResultBlocksOf(msg) ==
  LET bs == SelectSeq(msg.content, LAMBDA b : b.type = "tool_result")
  IN [i \in 1..Len(bs) |-> ToolResultPart(bs[i])]
ToolMessages(parts) == [i \in 1..Len(parts) |-> AiMessage("tool", "parts", <<>>, <<parts[i]>>)]

\* convertMessage with the tool messages of a mixed message put first.
convertMessageToolsFirst(msg) ==
  LET textBlocks == textBlocksOf(msg)
      toolResultBlocks == toolResultBlocksOf(msg)
  IN IF Len(toolResultBlocks) = 0
     THEN <<AiMessage(msg.role, "text", JoinTexts(textBlocks), <<>>)>>
     ELSE IF Len(textBlocks) = 0
     THEN ToolMessages(toolResultBlocks)
     ELSE ToolMessages(toolResultBlocks)
            \o <<AiMessage(msg.role, "text", JoinTexts(textBlocks), <<>>)>>

\* What one iteration of the loop over messages pushes onto result.
convertMessage(msg) ==
  LET textBlocks == textBlocksOf(msg)
      toolResultBlocks == toolResultBlocksOf(msg)
  IN IF Len(toolResultBlocks) = 0
     THEN <<AiMessage(msg.role, "text", JoinTexts(textBlocks), <<>>)>>
     ELSE IF Len(textBlocks) = 0
     THEN ToolMessages(toolResultBlocks)
     ELSE <<AiMessage(msg.role, "text", JoinTexts(textBlocks), <<>>)>>
            \o ToolMessages(toolResultBlocks)

RECURSIVE convertToAiSdkMessages(_)
convertToAiSdkMessages(msgs) ==
  IF msgs = <<>> THEN <<>>
  ELSE convertMessage(Head(msgs)) \o convertToAiSdkMessages(Tail(msgs))

\* The histories: messages of either role over text, tool_call and
\* tool_result blocks.
HistoryBlocks ==
  { TextBlock(<<"a">>),
    Block("tool_call", <<>>, "c1", "calc", ArgsOf["calc"], Undefined, FALSE),
    Block("tool_result", <<>>, "c1", "calc", "", Number("3"), FALSE),
    Block("tool_result", <<>>, "c2", "rm", "", UserRejection("rm", ArgsOf["rm"], "denied"),
          TRUE) }
HistoryMessages ==
  {[role |-> r, content |-> c] :
     r \in {"user", "assistant"},
     c \in UNION {[1..n -> HistoryBlocks] : n \in 0..MaxContent}}
Histories == UNION {[1..n -> HistoryMessages] : n \in 1..MaxHistory}

\* streamChat: const aiMessages = await convertToAiSdkMessages(messages)
Convert ==
  /\ aiMessages = <<>>
  /\ aiMessages' = <<convertToAiSdkMessages(history)>>
  /\ UNCHANGED <<gateVars, connVars, turnVars, srvVars, uiVars, history, given, resolution, other>>

\* ------------------------------------------------------- store/messages
\* The content blocks the server stores: text, a tool call, and the results
\* a tool call can have (a value, a failed execution, a rejection).
StoredBlocks ==
  { TextBlock(<<"a">>),
    Block("tool_call", <<>>, "c1", "calc", ArgsOf["calc"], Undefined, FALSE),
    Block("tool_result", <<>>, "c1", "calc", "", Number("3"), FALSE),
    Block("tool_result", <<>>, "c1", "calc", "",
          JsVal("object", ExecFailure.error, "", "", "", "", ""), TRUE),
    Block("tool_result", <<>>, "c2", "rm", "", UserRejection("rm", ArgsOf["rm"], "denied"),
          TRUE) }
StoredContents == UNION {[1..n -> StoredBlocks] : n \in 1..MaxContent}
MsgIds == <<"m1", "m2", "m3", "m4">>

\* createMessage({id, sessionId, role, content}) with a new id.
StoreMessage(role, content) ==
  LET id == MsgIds[Len(messages) + 1] IN
  /\ Len(messages) < MaxStored
  /\ messages' = createMessage(messages, id, SessionId, role, content)
  /\ given' = Append(given, [id |-> id, role |-> role, content |-> content])
  /\ UNCHANGED <<gateVars, connVars, turnVars, readyState, sendThrows, sessions, chatWs,
                 connOps, uiVars, history, aiMessages, resolution, other>>

\* const history = listMessages(sessionId)
Reload ==
  /\ history' = listMessages(messages, SessionId)
  /\ UNCHANGED <<gateVars, connVars, turnVars, srvVars, uiVars, aiMessages, given, resolution, other>>

\* ------------------------------------------------- model and provider
\* A chat.message for a session with any selection, a preconfig with any
\* default model, in an environment with any of the API keys.
Resolutions ==
  {[stage |-> "chat",
    session |-> [selectedModel |-> sm, selectedProvider |-> sp],
    preconfig |-> [model |-> pm], env |-> env,
    modelId |-> "", provider |-> "", apiKeyEnv |-> "", sdk |-> <<>>] :
     sm \in ModelIds \cup {""}, sp \in ProviderNames \cup {""},
     pm \in ModelIds \cup {""}, env \in SUBSET EnvNames}

\* handleChat, from the model resolution to the API key check.
HandleChatResolve ==
  /\ resolution # <<>>
  /\ resolution.stage = "chat"
  /\ LET modelId == ResolveModel(resolution.session, resolution.preconfig)
         provider == ResolveProvider(resolution.session, resolution.preconfig)
     IN resolution' = [resolution EXCEPT
                         !.modelId = modelId, !.provider = provider,
                         !.apiKeyEnv = apiKeyEnv(provider),
                         !.stage = IF apiKeyEnv(provider) \in resolution.env
                                   THEN "resolved" ELSE "no_api_key"]
  /\ UNCHANGED <<gateVars, connVars, turnVars, srvVars, uiVars, history, aiMessages, given, other>>

\* streamChat: resolvedModelId = modelId || preconfig.model, then getModel.
StreamChatGetModel ==
  /\ resolution # <<>>
  /\ resolution.stage = "resolved"
  /\ LET resolvedModelId == Or(resolution.modelId, resolution.preconfig.model)
         sdk == getModel(resolvedModelId, resolution.provider, resolution.env)
     IN resolution' = [resolution EXCEPT
                         !.sdk = sdk, !.stage = IF sdk.threw THEN "threw" ELSE "model"]
  /\ UNCHANGED <<gateVars, connVars, turnVars, srvVars, uiVars, history, aiMessages, given, other>>

\* ------------------------------------------- a turn of another session
\* A second invocation of handleChat, for a session other than SessionId,
\* whose provider streams text only and reports no usage.
OtherSession == "s2"
OtherUserMsgId == "m3"
OtherAssistantMsgId == "m4"
OtherIdle == [pc |-> "idle", ws |-> 0, currentText |-> <<>>, deltas |-> 0]

\* The message handleChat broadcasts for a delta or complete event of that turn.
WireOther(ev) ==
  IF ev.type = "complete"
  THEN [Wire(ev) EXCEPT !.sessionId = OtherSession, !.message.id = OtherAssistantMsgId]
  ELSE [Wire(ev) EXCEPT !.sessionId = OtherSession, !.messageId = OtherAssistantMsgId]

\* HandleChatOther, were chat.message handlers run one after the other.
HandleChatOtherSerialised(ws) ==
  /\ pc # "streaming"
  /\ ws \in ClientKeys
  /\ other.pc = "idle"
  /\ other' = [other EXCEPT !.pc = "streaming", !.ws = ws]
  /\ UNCHANGED <<gateVars, connVars, turnVars, srvVars, uiVars, history, aiMessages, given,
                 resolution>>

\* A chat.message from ws for the other session: handleChat up to the first
\* event of streamChat.
HandleChatOther(ws) ==
  /\ ws \in ClientKeys
  /\ readyState[ws] = "OPEN"
  /\ other.pc = "idle"
  /\ LET code == chatPrecheck(OtherSession)
         content == <<TextBlock(<<"q">>)>>
         b1 == broadcast(sent, [type |-> "chat.user_message", sessionId |-> OtherSession,
                                message |-> [id |-> OtherUserMsgId, role |-> "user",
                                             content |-> content]])
         b2 == broadcast(b1.out, [type |-> "chat.start", sessionId |-> OtherSession,
                                  messageId |-> OtherAssistantMsgId])
     IN IF code # ""
        THEN /\ sent' = trySend(sent, ws, ErrorMsg(code)).out
             /\ UNCHANGED <<messages, other>>
        ELSE /\ messages' = createMessage(messages, OtherUserMsgId, OtherSession, "user",
                                          content)
             /\ IF b1.threw \/ b2.threw
                THEN /\ sent' = trySend(IF b1.threw THEN b1.out ELSE b2.out, ws,
                                        ErrorMsg("parse_error")).out
                     /\ UNCHANGED other
                ELSE /\ sent' = b2.out
                     /\ other' = [other EXCEPT !.pc = "streaming", !.ws = ws]
  /\ UNCHANGED <<gateVars, clients, warnLog, turnVars, readyState, sendThrows, sessions,
                 chatWs, connOps, uiVars, history, aiMessages, given, resolution>>

\* The provider of that turn streams a text delta: streamChat yields delta
\* and handleChat broadcasts chat.delta.
OtherDelta(text) ==
  /\ other.pc = "streaming"
  /\ other.deltas < MaxDeltas
  /\ text # <<>>
  /\ LET b == broadcast(sent, WireOther(Event("delta", text, "", "", "", Undefined,
                                              NoUsage, <<>>)))
     IN /\ sent' = IF b.threw THEN catchChatError(b.out, other.ws) ELSE b.out
        /\ other' = [other EXCEPT !.currentText = @ \o text, !.deltas = @ + 1,
                                  !.pc = IF b.threw THEN "aborted" ELSE @]
  /\ UNCHANGED <<gateVars, clients, warnLog, turnVars, readyState, sendThrows, sessions,
                 messages, chatWs, connOps, uiVars, history, aiMessages, given, resolution>>

\* The stream of that turn ends: the text is flushed, complete is yielded,
\* the assistant message is stored and chat.complete is broadcast.
OtherEndOfStream ==
  /\ other.pc = "streaming"
  /\ LET noUsage == CHOOSE u \in UsageOpts : ~u.reported
         complete == FinalEvents(FlushText(<<>>, other.currentText), noUsage)[1]
         b == broadcast(sent, WireOther(complete))
     IN /\ messages' = createMessage(messages, OtherAssistantMsgId, OtherSession,
                                     "assistant", complete.message)
        /\ sent' = IF b.threw THEN catchChatError(b.out, other.ws) ELSE b.out
        /\ other' = [other EXCEPT !.pc = IF b.threw THEN "aborted" ELSE "done"]
  /\ UNCHANGED <<gateVars, clients, warnLog, turnVars, readyState, sendThrows, sessions,
                 chatWs, connOps, uiVars, history, aiMessages, given, resolution>>

\* No function of the agent has been applied yet.
FnIdle ==
  /\ history = <<>>
  /\ aiMessages = <<>>
  /\ given = <<>>
  /\ resolution = <<>>
  /\ other = OtherIdle

TurnIdle ==
  /\ pc = "idle"
  /\ hasCallback = FALSE
  /\ calls = <<>>
  /\ uuids = 0
  /\ fullStream = <<>>
  /\ streamClosed = FALSE
  /\ deltas = 0
  /\ streamLog = <<>>
  /\ currentText = <<>>
  /\ contentBlocks = <<>>
  /\ events = <<>>

GateInit ==
  /\ now = 0
  /\ pendingApprovals = <<>>
  /\ promises = <<>>
  /\ clients = <<[ws |-> 1, sessionId |-> SessionId], [ws |-> 2, sessionId |-> ""]>>
  /\ sent = [c \in Conns |-> <<>>]
  /\ warnLog = ""
  /\ TurnIdle
  /\ readyState = [c \in Conns |-> "OPEN"]
  /\ sendThrows = {}
  /\ sessions = StoredSessions
  /\ messages = <<>>
  /\ chatWs = 0
  /\ connOps = 0
  /\ clientMsgs = <<>>
  /\ rcvd = <<>>
  /\ groupIn = <<>>
  /\ groupOut = <<>>
  /\ FnIdle

\* The gate on its own, every request under a toolCallId of its own
\* (ToolCallBlock.toolCallId is unique per call).
GateNext ==
  \/ \E n \in ToolNames : Request(Uuids[Len(promises) + 1], n, ToolDefs[n].dangerous)
  \/ \E r \in 1..MaxRequests : TimerFire(r)
  \/ Tick
  \/ Cleanup
  \/ \E ws \in Conns, i \in 1..(MaxRequests + 1), a \in BOOLEAN :
        ToolApprovalMessage(ws, Uuids[i], a)

SpecGate == GateInit /\ [][GateNext]_vars

\* The gate on its own, callers free to register a toolCallId again.
ReuseNext ==
  \/ \E id \in ApprovalIds, n \in ToolNames : Request(id, n, ToolDefs[n].dangerous)
  \/ \E r \in 1..MaxRequests : TimerFire(r)
  \/ Tick
  \/ Cleanup
  \/ \E ws \in Conns, id \in ApprovalIds, a \in BOOLEAN : ToolApprovalMessage(ws, id, a)

SpecGateReuse == GateInit /\ [][ReuseNext]_vars

\* The turn driver with the gate behind handleChat's approval callback; the
\* connections answer the requests that are pending (SpecGate has the stray,
\* repeated and late answers).
Init == GateInit

Next ==
  \/ \E cb \in BOOLEAN, key \in BOOLEAN : StartTurn(cb, key)
  \/ \E t \in DeltaTexts(deltas + 1) : SdkTextDelta(t)
  \/ \E n \in ToolNames : SdkToolCall(n)
  \/ \E c \in 1..MaxCalls : ExecuteBegin(c)
  \/ \E c \in 1..MaxCalls : ApprovalSettled(c)
  \/ \E c \in 1..MaxCalls, res \in UNION {ExecResults(n) : n \in ToolNames} :
        ExecuteToolDone(c, res)
  \/ SdkClose
  \/ ReadChunk
  \/ StreamError
  \/ \E tu \in UsageOpts, u \in UsageOpts : EndOfStream(tu, u)
  \/ \E r \in 1..MaxCalls : TimerFire(r)
  \/ (now < TurnTicks * TickMs /\ Tick)
  \/ \E ws \in Conns, id \in DOMAIN pendingApprovals, a \in BOOLEAN :
        ToolApprovalMessage(ws, id, a)

Spec == Init /\ [][Next]_vars

\* A turn whose model answers every tool result with another tool call,
\* until it stops by itself or stopWhen ends the turn.
StepsNext ==
  \/ StartTurn(TRUE, TRUE)
  \/ SdkNextStep("calc")
  \/ \E c \in 1..(StopWhenSteps + 1) : ExecuteBegin(c)
  \/ \E c \in 1..(StopWhenSteps + 1), res \in ExecResults("calc") : ExecuteToolDone(c, res)
  \/ SdkClose
  \/ ReadChunk
  \/ \E u \in UsageOpts : EndOfStream(u, u)

SpecSteps == Init /\ [][StepsNext]_vars

\* A chat.message served by handleChat while connections come, go and
\* change session; the tools of the turn need no approval.
ChatNext ==
  \/ \E ws \in Conns, ok \in BOOLEAN : HandleChat(ws, SessionId, ok)
  \/ \E t \in DeltaTexts(deltas + 1) \ {<<>>} : SdkTextDelta(t)
  \/ (Len(calls) < ChatCalls /\ SdkToolCall("calc"))
  \/ \E c \in 1..MaxCalls : ExecuteBegin(c)
  \/ \E c \in 1..MaxCalls : ExecuteToolDone(c, ExecSuccess(Number("3")))
  \/ SdkClose
  \/ ReadChunk
  \/ StreamError
  \/ \E u \in UsageOpts : EndOfStream(u, u)
  \/ \E ws \in Conns : Open(ws)
  \/ \E ws \in Conns : Disconnect(ws)
  \/ \E ws \in Conns : Close(ws)
  \/ \E ws \in Conns, sid \in {"s1", "s2"} : SessionResume(ws, sid)

SpecChat == Init /\ [][ChatNext]_vars

\* A turn served by handleChat in which the model calls the tool that
\* requires approval and the user denies it.
DenyNext ==
  \/ \E ws \in Conns : HandleChat(ws, SessionId, TRUE)
  \/ (Len(calls) < ChatCalls /\ SdkToolCall("rm"))
  \/ \E c \in 1..MaxCalls : ExecuteBegin(c)
  \/ \E ws \in Conns, id \in DOMAIN pendingApprovals : ToolApprovalMessage(ws, id, FALSE)
  \/ \E c \in 1..MaxCalls : ApprovalSettled(c)
  \/ \E t \in DeltaTexts(deltas + 1) \ {<<>>} : SdkTextDelta(t)
  \/ SdkClose
  \/ ReadChunk
  \/ \E u \in UsageOpts : EndOfStream(u, u)
  \/ \E ws \in Conns : SessionResume(ws, SessionId)

SpecChatDeny == Init /\ [][DenyNext]_vars

\* A turn served by handleChat together with the client of connection 1,
\* which handles what the server sends it and answers approval requests.
EndToEndNext ==
  \/ HandleChat(1, SessionId, TRUE)
  \/ \E t \in DeltaTexts(deltas + 1) \ {<<>>} : SdkTextDelta(t)
  \/ \E n \in ToolNames : (Len(calls) < ChatCalls /\ SdkToolCall(n))
  \/ \E c \in 1..MaxCalls : ExecuteBegin(c)
  \/ \E c \in 1..MaxCalls : ApprovalSettled(c)
  \/ \E c \in 1..MaxCalls, res \in UNION {ExecResults(n) : n \in ToolNames} :
        ExecuteToolDone(c, res)
  \/ \E id \in DOMAIN pendingApprovals, a \in BOOLEAN : ToolApprovalMessage(1, id, a)
  \/ SdkClose
  \/ ReadChunk
  \/ \E u \in UsageOpts : EndOfStream(u, u)
  \/ ClientHandleNext(1)
  \/ \E k \in 1..MaxCalls, approved \in BOOLEAN : UserAnswers(Uuids[k], approved)

SpecEndToEnd == Init /\ [][EndToEndNext]_vars

\* Two sessions with a connection each: connection 1 on SessionId, whose
\* turn calls tools, connection 2 on OtherSession.
TwoSessionsInit ==
  /\ now = 0
  /\ pendingApprovals = <<>>
  /\ promises = <<>>
  /\ clients = <<[ws |-> 1, sessionId |-> SessionId], [ws |-> 2, sessionId |-> OtherSession]>>
  /\ sent = [c \in Conns |-> <<>>]
  /\ warnLog = ""
  /\ TurnIdle
  /\ readyState = [c \in Conns |-> "OPEN"]
  /\ sendThrows = {}
  /\ sessions = [StoredSessions EXCEPT ![OtherSession] = SessionRow("p1", "")]
  /\ messages = <<>>
  /\ chatWs = 0
  /\ connOps = 0
  /\ clientMsgs = <<>>
  /\ rcvd = <<>>
  /\ groupIn = <<>>
  /\ groupOut = <<>>
  /\ FnIdle

TwoSessionsNext ==
  \/ HandleChat(1, SessionId, TRUE)
  \/ \E n \in ToolNames : (Len(calls) < ChatCalls /\ SdkToolCall(n))
  \/ \E c \in 1..MaxCalls : ExecuteBegin(c)
  \/ \E c \in 1..MaxCalls : ApprovalSettled(c)
  \/ \E c \in 1..MaxCalls, res \in UNION {ExecResults(n) : n \in ToolNames} :
        ExecuteToolDone(c, res)
  \/ \E id \in DOMAIN pendingApprovals, a \in BOOLEAN :
        (chatWs # 0 /\ ToolApprovalMessage(chatWs, id, a))
  \/ SdkClose
  \/ ReadChunk
  \/ \E u \in UsageOpts : EndOfStream(u, u)
  \/ HandleChatOther(2)
  \/ \E t \in DeltaTexts(other.deltas + 1) : OtherDelta(t)
  \/ OtherEndOfStream

SpecTwoSessions == TwoSessionsInit /\ [][TwoSessionsNext]_vars

\* Connections that send texts that are no client command, among
\* session.resume and chat.message messages.
InboundNext ==
  \/ \E ws \in Conns, text \in InboundTexts : WebsocketMessage(ws, text)
  \/ \E ws \in Conns, sid \in SessionIds : SessionResume(ws, sid)
  \/ \E ws \in Conns, sid \in SessionIds, ok \in BOOLEAN : HandleChat(ws, sid, ok)
  \/ \E ws \in Conns : Open(ws)
  \/ \E ws \in Conns : Disconnect(ws)
  \/ \E ws \in Conns : Close(ws)

SpecInbound == Init /\ [][InboundNext]_vars

\* The turn and the client of connection 1, with tools that print any of
\* the outputs a tool can print.
ToolValuesNext ==
  \/ HandleChat(1, SessionId, TRUE)
  \/ \E n \in ToolNames : (Len(calls) < ChatCalls /\ SdkToolCall(n))
  \/ \E c \in 1..MaxCalls : ExecuteBegin(c)
  \/ \E c \in 1..MaxCalls : ApprovalSettled(c)
  \/ \E c \in 1..MaxCalls, res \in UNION {ToolOutputs(n) : n \in ToolNames} :
        ExecuteToolDone(c, res)
  \/ \E id \in DOMAIN pendingApprovals, a \in BOOLEAN : ToolApprovalMessage(1, id, a)
  \/ SdkClose
  \/ ReadChunk
  \/ \E u \in UsageOpts : EndOfStream(u, u)
  \/ ClientHandleNext(1)

SpecToolValues == Init /\ [][ToolValuesNext]_vars

\* A turn on SessionId asked for by a connection that is bound to no
\* session, while no connection is subscribed to SessionId; nobody answers
\* the approval requests, time passes while one is pending.
NoSubscriberInit ==
  /\ now = 0
  /\ pendingApprovals = <<>>
  /\ promises = <<>>
  /\ clients = <<[ws |-> 1, sessionId |-> ""], [ws |-> 2, sessionId |-> ""]>>
  /\ sent = [c \in Conns |-> <<>>]
  /\ warnLog = ""
  /\ TurnIdle
  /\ readyState = [c \in Conns |-> "OPEN"]
  /\ sendThrows = {}
  /\ sessions = StoredSessions
  /\ messages = <<>>
  /\ chatWs = 0
  /\ connOps = 0
  /\ clientMsgs = <<>>
  /\ rcvd = <<>>
  /\ groupIn = <<>>
  /\ groupOut = <<>>
  /\ FnIdle

\* The clock advances while a request is waiting for its timer.
TickWhilePending ==
  /\ \E r \in 1..Len(promises) :
        promises[r].timer = "armed" /\ now - promises[r].createdAt < APPROVAL_TIMEOUT_MS
  /\ Tick

EndOfStreamAny == \E u \in UsageOpts : EndOfStream(u, u)

NoSubscriberNext ==
  \/ HandleChat(1, SessionId, TRUE)
  \/ \E t \in DeltaTexts(deltas + 1) \ {<<>>} : SdkTextDelta(t)
  \/ \E n \in ToolNames : (Len(calls) < ChatCalls /\ SdkToolCall(n))
  \/ \E c \in 1..MaxCalls : ExecuteBegin(c)
  \/ \E c \in 1..MaxCalls : ApprovalSettled(c)
  \/ \E c \in 1..MaxCalls, res \in UNION {ExecResults(n) : n \in ToolNames} :
        ExecuteToolDone(c, res)
  \/ \E r \in 1..MaxCalls : TimerFire(r)
  \/ TickWhilePending
  \/ SdkClose
  \/ ReadChunk
  \/ EndOfStreamAny
  \/ \E ws \in Conns : SessionResume(ws, OtherSession)

\* The event loop runs what is ready, timers fire, the tools and the
\* provider finish.
SpecNoSubscriber ==
  /\ NoSubscriberInit
  /\ [][NoSubscriberNext]_vars
  /\ WF_vars(TickWhilePending)
  /\ WF_vars(\E r \in 1..MaxCalls : TimerFire(r))
  /\ WF_vars(\E c \in 1..MaxCalls : ApprovalSettled(c))
  /\ WF_vars(\E c \in 1..MaxCalls : ExecuteBegin(c))
  /\ WF_vars(\E c \in 1..MaxCalls, res \in UNION {ExecResults(n) : n \in ToolNames} :
                ExecuteToolDone(c, res))
  /\ WF_vars(SdkClose)
  /\ WF_vars(ReadChunk)
  /\ WF_vars(EndOfStreamAny)

\* chat.message and session.resume for every kind of session, up to the
\* start of the turn.
RejectNext ==
  \/ \E ws \in Conns, sid \in SessionIds, ok \in BOOLEAN : HandleChat(ws, sid, ok)
  \/ \E ws \in Conns : Open(ws)
  \/ \E ws \in Conns : Disconnect(ws)
  \/ \E ws \in Conns : Close(ws)
  \/ \E ws \in Conns, sid \in SessionIds : SessionResume(ws, sid)

SpecChatReject == Init /\ [][RejectNext]_vars

\* A turn served by handleChat with connections whose ws.send throws.
ThrowNext ==
  \/ \E ws \in Conns, ok \in BOOLEAN : HandleChat(ws, SessionId, ok)
  \/ \E t \in DeltaTexts(deltas + 1) \ {<<>>} : SdkTextDelta(t)
  \/ (Len(calls) < ChatCalls /\ SdkToolCall("calc"))
  \/ \E c \in 1..MaxCalls : ExecuteBegin(c)
  \/ \E c \in 1..MaxCalls : ExecuteToolDone(c, ExecSuccess(Number("3")))
  \/ SdkClose
  \/ ReadChunk
  \/ StreamError
  \/ \E u \in UsageOpts : EndOfStream(u, u)
  \/ \E ws \in Conns : SessionResume(ws, SessionId)
  \/ \E ws \in Conns : SendBreaks(ws)

SpecChatThrow == Init /\ [][ThrowNext]_vars

\* The client of one connection during one turn: the messages of the turn
\* arrive in any order the server can send them in, the user answers the
\* approval requests shown.
ClientInit ==
  /\ now = 0
  /\ pendingApprovals = <<>>
  /\ promises = <<>>
  /\ clients = <<[ws |-> 1, sessionId |-> SessionId]>>
  /\ sent = [c \in Conns |-> <<>>]
  /\ warnLog = ""
  /\ pc = "idle"
  /\ hasCallback = FALSE
  /\ calls \in CallPlans
  /\ uuids = 0
  /\ fullStream = <<>>
  /\ streamClosed = FALSE
  /\ deltas = 0
  /\ streamLog = <<>>
  /\ currentText = <<>>
  /\ contentBlocks = <<>>
  /\ events = <<>>
  /\ readyState = [c \in Conns |-> "OPEN"]
  /\ sendThrows = {}
  /\ sessions = StoredSessions
  /\ messages = <<>>
  /\ chatWs = 0
  /\ connOps = 0
  /\ clientMsgs = <<>>
  /\ rcvd = <<>>
  /\ groupIn = <<>>
  /\ groupOut = <<>>
  /\ FnIdle

ClientNext ==
  \/ \E msg \in Deliverable : ClientReceive(msg)
  \/ \E k \in 1..ClientCalls, approved \in BOOLEAN : UserAnswers(Uuids[k], approved)

SpecClient == ClientInit /\ [][ClientNext]_vars

\* convertToAiSdkMessages applied to every history.
ConvertInit ==
  /\ now = 0
  /\ pendingApprovals = <<>>
  /\ promises = <<>>
  /\ clients = <<>>
  /\ sent = [c \in Conns |-> <<>>]
  /\ warnLog = ""
  /\ TurnIdle
  /\ readyState = [c \in Conns |-> "OPEN"]
  /\ sendThrows = {}
  /\ sessions = StoredSessions
  /\ messages = <<>>
  /\ chatWs = 0
  /\ connOps = 0
  /\ clientMsgs = <<>>
  /\ rcvd = <<>>
  /\ groupIn = <<>>
  /\ groupOut = <<>>
  /\ history \in Histories
  /\ aiMessages = <<>>
  /\ given = <<>>
  /\ resolution = <<>>
  /\ other = OtherIdle

ConvertNext == Convert

SpecConvert == ConvertInit /\ [][ConvertNext]_vars

\* The model resolution of a turn, for every session, preconfig and environment.
ResolveInit ==
  /\ now = 0
  /\ pendingApprovals = <<>>
  /\ promises = <<>>
  /\ clients = <<>>
  /\ sent = [c \in Conns |-> <<>>]
  /\ warnLog = ""
  /\ TurnIdle
  /\ readyState = [c \in Conns |-> "OPEN"]
  /\ sendThrows = {}
  /\ sessions = StoredSessions
  /\ messages = <<>>
  /\ chatWs = 0
  /\ connOps = 0
  /\ clientMsgs = <<>>
  /\ rcvd = <<>>
  /\ groupIn = <<>>
  /\ groupOut = <<>>
  /\ history = <<>>
  /\ aiMessages = <<>>
  /\ given = <<>>
  /\ resolution \in Resolutions
  /\ other = OtherIdle

ResolveNext ==
  \/ HandleChatResolve
  \/ StreamChatGetModel

SpecResolve == ResolveInit /\ [][ResolveNext]_vars

\* The messages table: messages are stored and the transcript is loaded;
\* what was loaded can be stored again.
StoreNext ==
  \/ \E role \in {"user", "assistant"}, content \in StoredContents :
        StoreMessage(role, content)
  \/ \E k \in 1..MaxStored : (k <= Len(history) /\ StoreMessage(history[k].role, history[k].content))
  \/ Reload

SpecStore == GateInit /\ [][StoreNext]_vars

\* The grouping of a message's content for rendering, for every content.
GroupInit ==
  /\ now = 0
  /\ pendingApprovals = <<>>
  /\ promises = <<>>
  /\ clients = <<>>
  /\ sent = [c \in Conns |-> <<>>]
  /\ warnLog = ""
  /\ TurnIdle
  /\ readyState = [c \in Conns |-> "OPEN"]
  /\ sendThrows = {}
  /\ sessions = StoredSessions
  /\ messages = <<>>
  /\ chatWs = 0
  /\ connOps = 0
  /\ clientMsgs = <<>>
  /\ rcvd = <<>>
  /\ groupIn \in Contents
  /\ groupOut = <<>>
  /\ FnIdle

GroupNext == Render

SpecGroup == GroupInit /\ [][GroupNext]_vars

\* ==================================================================== claims
Reqs == 1..Len(promises)
CallIds == 1..Len(calls)
NeedsApproval(c) == ToolDefs[calls[c].toolName].requireApproval
\* The approval of invocation c resolved to false.
Denied(c) ==
  /\ calls[c].req # 0
  /\ promises[calls[c].req].settled
  /\ ~promises[calls[c].req].value
Age(r) == now - promises[r].createdAt
InRegistry(r) ==
  /\ promises[r].toolCallId \in DOMAIN pendingApprovals
  /\ pendingApprovals[promises[r].toolCallId].resolve = r

\* C1: for a tool whose manifest requires approval, invoked with the approval
\* callback configured, an approval that resolved to false (a tool.approval
\* with approved=false, or the timer) means executeTool is never called for
\* that invocation and the wrapper returns the USER_REJECTION result.
C1_DeniedNeverExecutes ==
  \A c \in CallIds :
    (NeedsApproval(c) /\ hasCallback /\ Denied(c)) =>
      /\ calls[c].executions = 0
      /\ calls[c].phase \in {"awaiting", "returned"}
      /\ calls[c].phase # "awaiting" =>
           calls[c].output = UserRejection(calls[c].toolName, calls[c].args, "denied")

\* One invocation denied by the timer, another by a tool.approval message,
\* both wrappers have returned and their results went out.
C1_Witness ==
  \E c, d \in CallIds :
    /\ NeedsApproval(c) /\ hasCallback /\ Denied(c) /\ Denied(d)
    /\ promises[calls[c].req].by = "timer"
    /\ promises[calls[d].req].by = "resolveApproval"
    /\ calls[c].phase = "returned" /\ calls[d].phase = "returned"

\* C2: a request is fulfilled at most once: its resolver is called at most
\* once, a decision once delivered never changes, and once it is delivered
\* resolveApproval for its id returns false.
C2_AtMostOnce ==
  /\ [](\A r \in Reqs :
          /\ promises[r].resolveCalls <= 1
          /\ promises[r].settled => ~resolveApprovalReturns(promises[r].toolCallId))
  /\ [][\A r \in Reqs :
          promises[r].settled =>
            /\ promises'[r].settled
            /\ promises'[r].value = promises[r].value
            /\ promises'[r].by = promises[r].by]_vars

\* A request approved by resolveApproval, then a second resolveApproval for
\* the same id (it returned false and was logged), then its timer.
C2_Witness ==
  \E r \in Reqs :
    /\ promises[r].settled /\ promises[r].value
    /\ warnLog = promises[r].toolCallId
    /\ promises[r].timer = "fired"

\* C3: a request that no resolveApproval call resolved is resolved to false
\* once its timer has fired, the timer never fires before the timeout, and a
\* request is resolved to true only by resolveApproval(id, true).
C3_TimeoutDenies ==
  \A r \in Reqs :
    /\ promises[r].timer = "fired" => Age(r) >= APPROVAL_TIMEOUT_MS
    /\ (promises[r].timer = "fired" /\ promises[r].by # "resolveApproval") =>
         promises[r].settled /\ ~promises[r].value
    /\ (promises[r].settled /\ promises[r].value) => promises[r].by = "resolveApproval"

\* A request nobody answered, denied by its own timer.
C3_Witness ==
  \E r \in Reqs :
    /\ promises[r].timer = "fired"
    /\ promises[r].by = "timer"
    /\ promises[r].settled /\ ~promises[r].value

\* C4: with no approval callback, every invocation of a tool that requires
\* approval returns the USER_REJECTION result (the shape of a user denial:
\* error, message, toolName, args), executeTool is never called and nothing
\* is registered in the gate.
C4_NoCallbackRejects ==
  \A c \in CallIds :
    (NeedsApproval(c) /\ ~hasCallback /\ calls[c].phase # "called") =>
      /\ calls[c].executions = 0
      /\ calls[c].req = 0
      /\ calls[c].phase = "returned"
      /\ calls[c].output.error = "USER_REJECTION"
      /\ calls[c].output.message # ""
      /\ [calls[c].output EXCEPT !.message = "denied"]
           = UserRejection(calls[c].toolName, calls[c].args, "denied")

\* A turn without callback that called a tool requiring approval and completed.
C4_Witness ==
  /\ pc = "done"
  /\ ~hasCallback
  /\ \E c \in CallIds : NeedsApproval(c) /\ calls[c].phase = "returned"

\* C5: every awaitable of createPendingApproval is fulfilled at the latest
\* when its own timer fires.
C5_SettledWhenTimerFired ==
  \A r \in Reqs : promises[r].timer = "fired" => promises[r].settled

\* C6: for an entry older than the timeout, whichever of resolveApproval, the
\* entry's own timer and cleanupExpiredApprovals runs first removes the entry
\* and decides the outcome; once the outcome is decided, resolveApproval
\* returns false and changes nothing, the timer only marks itself fired, and
\* a cleanup leaves nothing for the next cleanup to do.
C6_FirstWins ==
  [][/\ \A r \in Reqs :
          (InRegistry(r) /\ Age(r) > APPROVAL_TIMEOUT_MS) =>
            LET id == promises[r].toolCallId IN
            /\ \A ws \in Conns, x \in BOOLEAN :
                 ToolApprovalMessage(ws, id, x) =>
                   /\ id \notin DOMAIN pendingApprovals'
                   /\ promises'[r].settled /\ promises'[r].value = x
            /\ (TimerFire(r) \/ Cleanup) =>
                 /\ id \notin DOMAIN pendingApprovals'
                 /\ promises'[r].settled /\ ~promises'[r].value
     /\ \A r \in Reqs :
          promises[r].settled =>
            /\ \A ws \in Conns, x \in BOOLEAN :
                 ToolApprovalMessage(ws, promises[r].toolCallId, x) =>
                   /\ ~resolveApprovalReturns(promises[r].toolCallId)
                   /\ UNCHANGED <<pendingApprovals, promises>>
            /\ TimerFire(r) =>
                 /\ pendingApprovals' = pendingApprovals
                 /\ promises' = [promises EXCEPT ![r].timer = "fired"]
            /\ Cleanup => promises'[r] = promises[r]
     /\ Cleanup => Expired(now)' = {}
     /\ (Cleanup /\ Expired(now) = {}) => UNCHANGED <<pendingApprovals, promises>>]_vars

\* An expired entry decided by cleanup; afterwards its timer fired and a
\* resolveApproval for its id returned false.
C6_Witness ==
  \E r \in Reqs :
    /\ promises[r].by = "cleanup"
    /\ promises[r].timer = "fired"
    /\ warnLog = promises[r].toolCallId
    /\ promises[r].settled /\ ~promises[r].value

\* C7: with two pending requests under different ids A and B, resolving A
\* (resolveApproval(A, x) or A's timer) leaves B's entry and B's promise as
\* they are; B is fulfilled only by resolveApproval(B, x), with x, or with
\* false by its own expiry.
C7_Independent ==
  [][/\ \A ra, rb \in Reqs :
          (ra # rb /\ InRegistry(ra) /\ InRegistry(rb)) =>
            LET A == promises[ra].toolCallId
                B == promises[rb].toolCallId IN
            ((\E ws \in Conns, x \in BOOLEAN : ToolApprovalMessage(ws, A, x))
               \/ TimerFire(ra)) =>
              /\ B \in DOMAIN pendingApprovals'
              /\ pendingApprovals'[B] = pendingApprovals[B]
              /\ promises'[rb] = promises[rb]
     /\ \A r \in Reqs :
          (~promises[r].settled /\ promises'[r].settled) =>
            \/ \E ws \in Conns :
                 ToolApprovalMessage(ws, promises[r].toolCallId, promises'[r].value)
            \/ /\ ~promises'[r].value
               /\ Age(r) >= APPROVAL_TIMEOUT_MS
               /\ TimerFire(r) \/ Cleanup]_vars

\* A was resolved by resolveApproval and then B by its timer, while a third
\* request is still pending.
C7_Witness ==
  \E ra, rb, rc \in Reqs :
    /\ promises[ra].by = "resolveApproval"
    /\ promises[rb].by = "timer"
    /\ promises[ra].toolCallId # promises[rb].toolCallId
    /\ Age(rb) < Age(ra)
    /\ InRegistry(rc) /\ ~promises[rc].settled

\* C8: resolveApproval for an id that is not in the registry returns false
\* and leaves the registry and every promise as they are, and the
\* tool.approval handler sends nothing to the connection.
C8_UnknownIdIgnored ==
  [][\A ws \in Conns, i \in 1..Len(Uuids), x \in BOOLEAN :
       (ToolApprovalMessage(ws, Uuids[i], x) /\ Uuids[i] \notin DOMAIN pendingApprovals) =>
         /\ ~resolveApprovalReturns(Uuids[i])
         /\ UNCHANGED <<pendingApprovals, promises, clients, sent>>]_vars

\* A tool.approval for an id whose request had expired (denied by its timer)
\* was ignored while another request is still pending.
C8_Witness ==
  \E r, q \in Reqs :
    /\ warnLog = promises[r].toolCallId
    /\ promises[r].by = "timer"
    /\ InRegistry(q) /\ ~promises[q].settled

\* C9: a turn that does not fail yields exactly one complete event and it is
\* the last event; a turn that fails, or has not ended, has yielded none.
Completes == {i \in 1..Len(events) : events[i].type = "complete"}
C9_OneCompleteLast ==
  /\ Cardinality(Completes) <= 1
  /\ pc = "done" => Completes = {Len(events)}
  /\ pc # "done" => Completes = {}

\* A turn with text, a tool call, its result and usage has completed.
C9_Witness ==
  /\ pc = "done"
  /\ \E i, j, k \in 1..Len(events) :
       /\ events[i].type = "delta"
       /\ events[j].type = "tool_result"
       /\ events[k].type = "usage"

\* C10: the events of a turn follow the provider stream: the deltas, tool
\* calls and tool results appear in the order of their chunks, every
\* tool_call precedes the tool_result of the same toolCallId, and usage (when
\* present) and complete are the last two events.
StreamKeys(chunks) ==
  LET kept == SelectSeq(chunks, LAMBDA ch : ~(ch.type = "text-delta" /\ ch.text = <<>>))
  IN [i \in 1..Len(kept) |->
        IF kept[i].type = "text-delta" THEN <<"delta", kept[i].text, "">>
        ELSE IF kept[i].type = "tool-call" THEN <<"tool_call", <<>>, kept[i].toolCallId>>
        ELSE <<"tool_result", <<>>, kept[i].toolCallId>>]
EventKeys(evs) ==
  LET kept == SelectSeq(evs, LAMBDA e : e.type \in {"delta", "tool_call", "tool_result"})
  IN [i \in 1..Len(kept) |-> <<kept[i].type, kept[i].content, kept[i].toolCallId>>]
C10_EventOrder ==
  /\ EventKeys(events) = StreamKeys(SubSeq(streamLog, 1, Len(streamLog) - Len(fullStream)))
  /\ \A k \in 1..Len(events) :
       events[k].type = "tool_result" =>
         \E j \in 1..(k - 1) :
           events[j].type = "tool_call" /\ events[j].toolCallId = events[k].toolCallId
  /\ \A k \in 1..Len(events) :
       /\ events[k].type = "complete" => k = Len(events)
       /\ events[k].type = "usage" =>
            k = Len(events) - 1 /\ events[Len(events)].type = "complete"

\* A completed turn: text, then a tool call, then its result, then usage.
C10_Witness ==
  /\ pc = "done"
  /\ \E i, j, k \in 1..Len(events) :
       /\ i < j /\ j < k
       /\ events[i].type = "delta"
       /\ events[j].type = "tool_call"
       /\ events[k].type = "tool_result" /\ events[k].toolCallId = events[j].toolCallId
       /\ events[Len(events) - 1].type = "usage"

\* ----------------------------------------------------- final message claims
\* The events of the turn in emission order, every maximal run of
\* consecutive deltas replaced by one text block of their concatenation,
\* tool_call and tool_result events by their blocks.
RECURSIVE Collapsed(_, _)
Collapsed(evs, run) ==
  IF evs = <<>> THEN FlushText(<<>>, run)
  ELSE LET ev == Head(evs) IN
       CASE ev.type = "delta" -> Collapsed(Tail(evs), run \o ev.content)
         [] ev.type = "tool_call" ->
              FlushText(<<>>, run)
                \o <<Block("tool_call", <<>>, ev.toolCallId, ev.toolName, ev.args,
                            Undefined, FALSE)>>
                \o Collapsed(Tail(evs), <<>>)
         [] ev.type = "tool_result" ->
              FlushText(<<>>, run)
                \o <<Block("tool_result", <<>>, ev.toolCallId, ev.toolName, "", ev.result,
                            IsErrorResult(ev.result))>>
                \o Collapsed(Tail(evs), <<>>)
         [] OTHER -> Collapsed(Tail(evs), run)
\* The content of the message carried by the complete event.
CompleteContent == events[Len(events)].message
RECURSIVE ConcatText(_)
ConcatText(blocks) ==
  IF blocks = <<>> THEN <<>>
  ELSE (IF Head(blocks).type = "text" THEN Head(blocks).text ELSE <<>>)
         \o ConcatText(Tail(blocks))
RECURSIVE ConcatContent(_)
ConcatContent(evs) ==
  IF evs = <<>> THEN <<>>
  ELSE (IF Head(evs).type = "delta" THEN Head(evs).content ELSE <<>>)
         \o ConcatContent(Tail(evs))
ProducedSomething == \E i \in 1..Len(events) : events[i].type \in {"delta", "tool_call", "tool_result"}

\* C22: the content of the message carried by complete is the turn's events
\* in emission order with every maximal run of consecutive deltas replaced
\* by one text block of their concatenation.
C22_ContentFollowsEvents ==
  (pc = "done" /\ ProducedSomething) =>
    /\ CompleteContent = Collapsed(events, <<>>)
    /\ ConcatText(CompleteContent) = ConcatContent(events)

\* C23: the message carried by complete has at least one content block;
\* when the stream produced no non-empty text, no tool call and no tool
\* result its content is exactly one text block with empty text.
C23_NeverContentless ==
  pc = "done" =>
    /\ Len(CompleteContent) >= 1
    /\ ~ProducedSomething => CompleteContent = <<TextBlock(<<>>)>>
\* A turn whose stream held only an empty text-delta has completed.
C23_Witness ==
  /\ pc = "done" /\ ~ProducedSomething
  /\ Len(streamLog) >= 1
  /\ CompleteContent = <<TextBlock(<<>>)>>

\* C24: a turn has at most 10 tool-use steps: when every tool result makes
\* the model call a tool again the turn stops after the 10th step, does not
\* fail, and yields one complete event whose message holds the content
\* accumulated so far.
C24_StepCap ==
  /\ Len(calls) <= StopWhenSteps
  /\ pc # "failed"
  /\ pc = "done" =>
       /\ Completes = {Len(events)}
       /\ contentBlocks # <<>> => CompleteContent = contentBlocks
       /\ Len(SelectSeq(contentBlocks, LAMBDA b : b.type = "tool_call")) = Len(calls)
       /\ Len(SelectSeq(contentBlocks, LAMBDA b : b.type = "tool_result")) = Len(calls)
\* The turn has completed after the 10th step.
C24_Witness ==
  /\ pc = "done"
  /\ Len(calls) = StopWhenSteps
  /\ Len(CompleteContent) = 2 * StopWhenSteps

\* Invocation c was rejected: denied or timed out, or no approval callback.
Rejected(c) == NeedsApproval(c) /\ (~hasCallback \/ Denied(c))
\* executeTool ran for invocation c and returned success=false.
ExecFailed(c) == calls[c].executions = 1 /\ calls[c].output.error # ""
\* Invocation c has its tool_result event and an isError block in the message.
ReportedAsError(c) ==
  /\ \E i \in 1..Len(events) :
        /\ events[i].type = "tool_result"
        /\ events[i].toolCallId = calls[c].providerId
        /\ events[i].result = calls[c].output
  /\ \E j \in 1..Len(CompleteContent) :
        /\ CompleteContent[j].type = "tool_result"
        /\ CompleteContent[j].toolCallId = calls[c].providerId
        /\ CompleteContent[j].result = calls[c].output
        /\ CompleteContent[j].isError

Subscribed(ws) ==
  /\ readyState[ws] = "OPEN"
  /\ \E i \in 1..Len(clients) : clients[i].ws = ws /\ clients[i].sessionId = SessionId
NewEvents == SubSeq(events', Len(events) + 1, Len(events'))
WireAll(evs) == [i \in 1..Len(evs) |-> Wire(evs[i])]
TypeCount(ws, type) == Cardinality({i \in 1..Len(sent[ws]) : sent[ws][i].type = type})
ErrorCount(ws, code) ==
  Cardinality({i \in 1..Len(sent[ws]) :
                 sent[ws][i].type = "error" /\ sent[ws][i].code = code})
TurnMessages(ws) ==
  SelectSeq(sent[ws], LAMBDA m : m.type \in {"chat.delta", "chat.tool_call",
                                             "chat.tool_result", "chat.usage",
                                             "chat.complete"})

\* C11: when the provider stream throws during a turn served by handleChat,
\* no chat.complete is sent to any connection, no assistant message is
\* stored, and the connection that sent the chat.message is sent one error
\* event.
C11_StreamErrorAborts ==
  (chatWs # 0 /\ pc = "failed") =>
    /\ \A ws \in Conns : TypeCount(ws, "chat.complete") = 0
    /\ \A i \in 1..Len(messages) : messages[i].role # "assistant"
    /\ ErrorCount(chatWs, "chat_error") = 1
    /\ \A ws \in Conns \ {chatWs} : TypeCount(ws, "error") = 0

\* The stream threw after a delta and a tool call had been broadcast.
C11_Witness ==
  /\ chatWs # 0 /\ pc = "failed"
  /\ TypeCount(chatWs, "chat.delta") = 1
  /\ TypeCount(chatWs, "chat.tool_call") = 1
  /\ ErrorCount(chatWs, "chat_error") = 1

\* C12: a chat.message for an unknown session (s0), for a session whose
\* preconfig cannot be found (s2) or whose provider has no API key (s3) is
\* answered with one error event to its connection; streamChat is not called,
\* no message is stored, nothing is broadcast and the session record stays
\* as it is.
C12_ConfigErrorRejects ==
  [][\A ws \in Conns, ok \in BOOLEAN :
       /\ HandleChat(ws, "s0", ok) => sent'[ws] = Append(sent[ws], ErrorMsg("not_found"))
       /\ HandleChat(ws, "s2", ok) => sent'[ws] = Append(sent[ws], ErrorMsg("no_preconfig"))
       /\ HandleChat(ws, "s3", ok) => sent'[ws] = Append(sent[ws], ErrorMsg("no_api_key"))
       /\ (\E sid \in {"s0", "s2", "s3"} : HandleChat(ws, sid, ok)) =>
            /\ \A w \in Conns \ {ws} : sent'[w] = sent[w]
            /\ pc' = "idle" /\ chatWs' = 0
            /\ UNCHANGED <<messages, sessions, events>>]_vars

\* One connection was refused for the missing API key, another for the
\* missing preconfig; nothing is stored.
C12_Witness ==
  /\ \E ws \in Conns : ErrorCount(ws, "no_api_key") = 1
  /\ \E ws \in Conns : ErrorCount(ws, "no_preconfig") = 1
  /\ messages = <<>> /\ pc = "idle"

\* C13: every event streamChat yields in a turn on session S is sent, in the
\* order of the yields, to every open connection bound to S at that time,
\* whichever connection sent the chat.message.
C13_FanOutToSubscribers ==
  [][(chatWs # 0 /\ events' # events) =>
       \A ws \in Conns :
         Subscribed(ws) => sent'[ws] = sent[ws] \o WireAll(NewEvents)]_vars

\* A connection that did not send the chat.message has been sent the whole
\* turn, as the sender has: delta, tool call, tool result, usage, complete.
C13_Witness ==
  /\ pc = "done"
  /\ \E ws \in Conns \ {chatWs} :
       /\ Subscribed(ws)
       /\ TurnMessages(ws) = TurnMessages(chatWs)
       /\ TurnMessages(ws) = WireAll(events)
       /\ Len(events) = 5

\* C14: an event of a turn on session S is sent to no connection that is
\* bound to another session or to none.
C14_OnlySubscribers ==
  [][(chatWs # 0 /\ events' # events) =>
       \A ws \in Conns : ~Subscribed(ws) => sent'[ws] = sent[ws]]_vars

\* C15: when ws.send of one subscribed connection throws, the event still
\* goes to every other subscribed connection and the turn goes on.
C15_FailedSendIsolated ==
  [][(chatWs # 0 /\ events' # events) =>
       /\ pc' # "aborted"
       /\ \A ws \in Conns \ sendThrows :
            Subscribed(ws) => sent'[ws] = sent[ws] \o WireAll(NewEvents)]_vars

\* ---------------------------------------------------------- client claims
\* The assistant message of the turn as the client holds it.
InFlight == {i \in 1..Len(clientMsgs) : clientMsgs[i].id = AssistantMsgId}
InFlightContent == clientMsgs[CHOOSE i \in InFlight : TRUE].content
Started == InFlight # {}
ToolBlocks(content) == SelectSeq(content, LAMBDA b : b.type \in {"tool_call", "tool_result"})
BlockKey(b) == <<b.type, b.toolCallId>>
MsgKey(m) ==
  IF m.type = "chat.tool_call" THEN <<"tool_call", m.toolCall.toolCallId>>
  ELSE <<"tool_result", m.toolCallId>>
BlockKeys(s) == [i \in 1..Len(s) |-> BlockKey(s[i])]
MsgKeys(s) == [i \in 1..Len(s) |-> MsgKey(s[i])]
ToolMsgs == SelectSeq(rcvd, LAMBDA m : m.type \in {"chat.tool_call", "chat.tool_result"})
RECURSIVE ConcatDeltas(_)
ConcatDeltas(s) ==
  IF s = <<>> THEN <<>>
  ELSE (IF Head(s).type = "chat.delta" THEN Head(s).delta ELSE <<>>) \o ConcatDeltas(Tail(s))
TextOf(content) ==
  LET texts == SelectSeq(content, LAMBDA b : b.type = "text") IN
  IF texts = <<>> THEN <<>> ELSE texts[1].text
NoApprovalGot == GotType("tool.approval_required") = {}
NoDeltaGot == GotType("chat.delta") = {}

\* C16: in a turn with chat.start, chat.delta, chat.tool_call and
\* chat.tool_result messages, after each message the in-flight assistant
\* message holds the text received so far and one block for every tool_call
\* and tool_result received so far, in arrival order; no chat.delta removes
\* a block already held.
C16_BlocksKept ==
  (Started /\ NoApprovalGot) =>
    /\ TextOf(InFlightContent) = ConcatDeltas(rcvd)
    /\ BlockKeys(ToolBlocks(InFlightContent)) = MsgKeys(ToolMsgs)

\* C17: every chat.tool_result handled adds a tool_result block for it to
\* the in-flight message, whether or not a tool_call block with the same
\* toolCallId is held.
C17_ResultAppended ==
  [][\A k \in 1..ClientCalls :
       (k <= Len(calls) /\ NoDeltaGot /\ ClientReceive(ToolResultMsg(k))) =>
         LET c == clientMsgs'[CHOOSE i \in InFlight : TRUE].content IN
         /\ c[Len(c)].type = "tool_result"
         /\ c[Len(c)].toolCallId = calls[k].providerId
         /\ c[Len(c)].result = calls[k].output]_vars

ToolCallBlocks(content) == SelectSeq(content, LAMBDA b : b.type = "tool_call")
\* The content of the in-flight message after handling m1 and then m2.
AfterBoth(m1, m2) ==
  LET after == handleServerMessage(handleServerMessage(clientMsgs, m1), m2)
  IN after[CHOOSE i \in InFlight : TRUE].content
\* Both messages of call k are still on their way to the client, which has
\* handled the approval requests of the calls before it.
RacePending(k) ==
  /\ k <= Len(calls) /\ CanToolCall(k) /\ CanApproval(k)
  /\ \A j \in 1..(k - 1) :
        ToolDefs[calls[j].toolName].requireApproval => Got(ApprovalMsg(j))

\* C18: from the same in-flight message, handling tool.approval_required
\* and then the chat.tool_call of the same call gives the same content as
\* handling them in the opposite order: one tool_call block for the call,
\* with needsApproval, the dangerous flag and the toolCallId of the
\* approval message.
C18_Confluent ==
  \A k \in 1..ClientCalls :
    (RacePending(k) /\ NoDeltaGot) =>
      LET approvalFirst == AfterBoth(ApprovalMsg(k), ToolCallMsg(k))
          callFirst == AfterBoth(ToolCallMsg(k), ApprovalMsg(k))
          own == SelectSeq(approvalFirst, LAMBDA b : b.toolCallId = calls[k].uuid)
      IN /\ approvalFirst = callFirst
         /\ Len(own) = 1
         /\ own[1].type = "tool_call" /\ own[1].needsApproval
         /\ own[1].dangerous = ToolDefs[calls[k].toolName].dangerous

\* Every chat.tool_call of the turn and every tool.approval_required of the
\* turn has been handled.
AllToolMessagesGot ==
  \A k \in 1..Len(calls) :
    /\ Got(ToolCallMsg(k))
    /\ ToolDefs[calls[k].toolName].requireApproval => Got(ApprovalMsg(k))

\* C19: after the chat.tool_call and tool.approval_required messages of a
\* turn, in any interleaving, the in-flight message holds exactly one
\* tool_call block per tool call of the turn.
C19_OneBlockPerCall ==
  (Started /\ NoDeltaGot /\ AllToolMessagesGot) =>
    Len(ToolCallBlocks(InFlightContent)) = Len(calls)

\* ------------------------------------------------------- rendering claims
\* A tool_result block whose toolCallId no tool_call block of the content has.
IsOrphan(b) ==
  /\ b.type = "tool_result"
  /\ \A i \in 1..Len(groupIn) :
        groupIn[i].type = "tool_call" => groupIn[i].toolCallId # b.toolCallId
\* The block an output item shows: the call of a group, else the item.
ItemBlock(item) == IF item.type = "grouped_tool" THEN item.toolCall ELSE item
ItemBlocks(items) == [k \in 1..Len(items) |-> ItemBlock(items[k])]
OrphanOrOther(b) == b.type # "tool_result" \/ IsOrphan(b)

\* C20: groupToolCallsAndResults drops no orphan tool_result: every
\* tool_result block whose toolCallId matches no tool_call block of the
\* content is a standalone item of the output, at its place among the
\* items of the other blocks.
C20_OrphanKept ==
  groupOut # <<>> =>
    SelectSeq(ItemBlocks(groupOut[1]), OrphanOrOther) = SelectSeq(groupIn, OrphanOrOther)
C20_Witness ==
  /\ groupOut # <<>>
  /\ \E i, j, k \in 1..Len(groupIn) :
        /\ IsOrphan(groupIn[k])
        /\ groupIn[i].type = "tool_call" /\ groupIn[j].type = "tool_result"
        /\ groupIn[i].toolCallId = groupIn[j].toolCallId /\ i < j /\ j < k
  /\ Len(groupOut[1]) = 2

\* The number of times block b is shown by the items: standalone, or as the
\* toolResult of a group.
Shown(items, b) ==
  Cardinality({k \in 1..Len(items) : items[k] = b})
    + Cardinality({k \in 1..Len(items) :
                     items[k].type = "grouped_tool" /\ items[k].toolResult = b})
\* No two tool_result blocks of the content share a toolCallId.
ResultIdsDistinct ==
  \A i, j \in 1..Len(groupIn) :
    (/\ groupIn[i].type = "tool_result" /\ groupIn[j].type = "tool_result"
     /\ groupIn[i].toolCallId = groupIn[j].toolCallId) => i = j

\* C21: for every content, wherever a result stands relative to its call,
\* every tool_call block is output as one group holding the tool_result of
\* the same toolCallId when there is one, and every tool_result block is
\* shown exactly once: not standalone when it is shown inside a group.
C21_EachResultOnce ==
  (groupOut # <<>> /\ ResultIdsDistinct) =>
    /\ \A i \in 1..Len(groupIn) :
          groupIn[i].type = "tool_result" => Shown(groupOut[1], groupIn[i]) = 1
    /\ \A k \in 1..Len(groupOut[1]) :
          groupOut[1][k].type = "grouped_tool" =>
            groupOut[1][k].toolResult =
              toolResultMapGet(groupIn, groupOut[1][k].toolCall.toolCallId)

\* ----------------------------------------------------------- usage claims
\* The sum of a token field over the usage events emitted for the session.
RECURSIVE UsageSum(_, _)
UsageSum(evs, field) ==
  IF evs = <<>> THEN 0
  ELSE (IF Head(evs).type = "usage" THEN Head(evs).usage[field] ELSE 0)
         + UsageSum(Tail(evs), field)

\* C27: the session's persisted promptTokens, completionTokens and
\* totalTokens each equal the sum of that field over the usage events
\* emitted for the session.
C27_UsagePersisted ==
  chatWs # 0 =>
    \A field \in {"promptTokens", "completionTokens", "totalTokens"} :
      sessions[SessionId][field] = UsageSum(events, field)

\* --------------------------------------------------------- storage claims
\* C28: listMessages returns every message stored with createMessage with
\* the identical content: the same blocks, with the same fields, in the
\* same order; this also holds for a message that was loaded and stored
\* again.
C28_StoreRoundTrip ==
  /\ Len(history) <= Len(given)
  /\ \A k \in 1..Len(history) :
        /\ history[k].id = given[k].id
        /\ history[k].role = given[k].role
        /\ history[k].content = given[k].content
\* A message with a tool call and an error result was stored, loaded,
\* stored again, and both were loaded.
C28_Witness ==
  /\ Len(history) = 2
  /\ history[2].content = history[1].content
  /\ Len(history[1].content) = 2
  /\ history[1].content[1].type = "tool_call"
  /\ history[1].content[2].type = "tool_result" /\ history[1].content[2].isError

\* ------------------------------------------------------ conversion claims
HasResult(msg) == \E i \in 1..Len(msg.content) : msg.content[i].type = "tool_result"
HasText(msg) == \E i \in 1..Len(msg.content) : msg.content[i].type = "text"
ResultIds(blocks) ==
  LET rs == SelectSeq(blocks, LAMBDA b : b.type = "tool_result")
  IN [i \in 1..Len(rs) |-> rs[i].toolCallId]
\* The output messages of one history message, as roles and, for a tool
\* message, the toolCallIds of the results it holds.
Shape(out) ==
  [i \in 1..Len(out) |->
     IF out[i].role = "tool"
     THEN <<"tool", [k \in 1..Len(out[i].parts) |-> out[i].parts[k].toolCallId]>>
     ELSE <<out[i].role, <<>>>>]
ExpectedShape(msg) ==
  LET ids == ResultIds(msg.content)
      tools == [i \in 1..Len(ids) |-> <<"tool", <<ids[i]>>>>]
  IN IF ~HasResult(msg) THEN <<<<msg.role, <<>>>>>>
     ELSE IF ~HasText(msg) THEN tools
     ELSE <<<<msg.role, <<>>>>>> \o tools
RECURSIVE ExpectedShapes(_)
ExpectedShapes(msgs) ==
  IF msgs = <<>> THEN <<>>
  ELSE ExpectedShape(Head(msgs)) \o ExpectedShapes(Tail(msgs))

\* C26: convertToAiSdkMessages maps the history messages in order: one
\* message of the original role when there is no tool_result block, one
\* tool message per tool_result when there is no text block, the text
\* message followed by one tool message per tool_result when there are
\* both; a tool_call block gives no message.
C26_ConvertShape ==
  aiMessages # <<>> =>
    /\ Shape(aiMessages[1]) = ExpectedShapes(history)
    /\ \A i \in 1..Len(aiMessages[1]) :
          aiMessages[1][i].role = "tool" => Len(aiMessages[1][i].parts) = 1
\* A history with a mixed message (text and a result), then a message of
\* results only, has been converted.
C26_Witness ==
  /\ aiMessages # <<>>
  /\ Len(history) = 2
  /\ HasResult(history[1]) /\ HasText(history[1])
  /\ HasResult(history[2]) /\ ~HasText(history[2])
  /\ Len(aiMessages[1]) >= 3

\* ------------------------------------------------------ resolution claims
\* The first of a session's selection, the profile's default and the global
\* default that is set.
ByPrecedence(selection, profileDefault, globalDefault) ==
  IF selection # "" THEN selection
  ELSE IF profileDefault # "" THEN profileDefault
  ELSE globalDefault

\* The provider of the profile's default model, when the profile has one.
ProfileProvider(preconfig) ==
  IF preconfig.model # "" THEN findProviderFromModel(preconfig.model) ELSE ""

ToolCallAt(ws, c) ==
  {i \in 1..Len(sent[ws]) :
     /\ sent[ws][i].type = "chat.tool_call"
     /\ sent[ws][i].toolCall.toolCallId = calls[c].providerId}
ApprovalAt(ws, c) ==
  {i \in 1..Len(sent[ws]) :
     /\ sent[ws][i].type = "tool.approval_required"
     /\ sent[ws][i].toolCallId = calls[c].uuid}
RejectionAt(ws, c) ==
  {i \in 1..Len(sent[ws]) :
     /\ sent[ws][i].type = "chat.tool_result"
     /\ sent[ws][i].toolCallId = calls[c].providerId
     /\ sent[ws][i].result.error = "USER_REJECTION"}
CompleteAt(ws) == {i \in 1..Len(sent[ws]) : sent[ws][i].type = "chat.complete"}

\* C30: for a denied call, a connection is sent chat.tool_call, then
\* tool.approval_required, then the chat.tool_result with USER_REJECTION,
\* then chat.complete: the approval request never stands before the
\* chat.tool_call of its call, and a connection sent the call and its
\* rejection was sent the approval request between them.
C30_DeniedCallOrder ==
  \A ws \in Conns, c \in 1..Len(calls) :
     /\ \A k \in ApprovalAt(ws, c) : \E j \in ToolCallAt(ws, c) : j < k
     /\ \A r \in RejectionAt(ws, c) :
           \E j \in ToolCallAt(ws, c), k \in ApprovalAt(ws, c) : j < k /\ k < r
     /\ \A r \in RejectionAt(ws, c), d \in CompleteAt(ws) : r < d

\* ---------------------------------------------- approval fan-out claims
\* The step sends connection ws a tool.approval_required message.
ApprovalSentTo(ws) ==
  /\ Len(sent'[ws]) = Len(sent[ws]) + 1
  /\ sent'[ws][Len(sent'[ws])].type = "tool.approval_required"

\* The open connections subscribed to the session of the turn.
Subscribers ==
  {clients[i].ws : i \in {j \in 1..Len(clients) : /\ clients[j].sessionId = SessionId
                                                 /\ readyState[clients[j].ws] = "OPEN"}}

\* C31: a step that sends tool.approval_required to a connection sends it
\* to every connection subscribed to the session at that time.
C31_ApprovalToEverySubscriber ==
  [][(\E ws \in Conns : ApprovalSentTo(ws)) => \A ws \in Subscribers : ApprovalSentTo(ws)]_vars

\* ------------------------------------------------- tool execution claims
\* The approval of invocation c resolved to true.
ApprovedTrue(c) ==
  /\ calls[c].req # 0
  /\ promises[calls[c].req].settled
  /\ promises[calls[c].req].value

\* The events of the given type that streamChat yielded for invocation c.
EventsOf(type, c) ==
  {i \in 1..Len(events) : /\ events[i].type = type
                          /\ events[i].toolCallId = calls[c].providerId}

\* While invocation c waits at the approval gate the loop reads the chunks
\* there are, and every other invocation goes on.
OnlyItWaits(c) ==
  /\ (pc = "streaming" /\ fullStream # <<>>) => ENABLED ReadChunk
  /\ \A d \in CallIds \ {c} :
        /\ calls[d].phase = "called" => ENABLED ExecuteBegin(d)
        /\ calls[d].phase = "executing" =>
              \A res \in ExecResults(calls[d].toolName) : ENABLED ExecuteToolDone(d, res)

\* C32: executeTool is called at most once per tool call, and once when the
\* wrapper has returned for a tool that needs no approval or was approved;
\* there is at most one tool_result event per tool_call event, none without
\* its tool_call, and exactly one of each when the turn is complete; an
\* invocation waiting at the approval gate holds up nothing else.
C32_OneExecutionOneResult ==
  \A c \in CallIds :
     /\ calls[c].executions <= 1
     /\ calls[c].phase = "returned" =>
          (calls[c].executions = 1 <=> (~NeedsApproval(c) \/ ApprovedTrue(c)))
     /\ Cardinality(EventsOf("tool_result", c)) <= Cardinality(EventsOf("tool_call", c))
     /\ Cardinality(EventsOf("tool_call", c)) <= 1
     /\ pc = "done" => Cardinality(EventsOf("tool_result", c)) = 1
     /\ calls[c].phase = "awaiting" => OnlyItWaits(c)

\* A complete turn in which rm waited at the gate and was denied while calc,
\* called after it, ran once and had its result yielded first.
C32_Witness ==
  /\ pc = "done"
  /\ Len(calls) = 2
  /\ calls[1].toolName = "rm" /\ Denied(1) /\ calls[1].executions = 0
  /\ calls[2].toolName = "calc" /\ calls[2].executions = 1
  /\ \E i \in EventsOf("tool_result", 2), j \in EventsOf("tool_result", 1) : i < j

\* ------------------------------------------------- chat.complete claims
\* The client's messages after it has handled msgs one after the other.
RECURSIVE HandleAll(_, _)
HandleAll(msgs, received) ==
  IF received = <<>> THEN msgs
  ELSE HandleAll(handleServerMessage(msgs, Head(received)), Tail(received))

\* The chat.complete messages the client has handled.
CompleteRcvd == {i \in 1..Len(rcvd) : rcvd[i].type = "chat.complete"}

\* C33: once the client has handled chat.complete, its copy of the message
\* that chat.start created is the message the server sent; and the content
\* createMessage stored for the turn reads back as the content broadcast in
\* chat.complete.
C33_CompleteReplaces ==
  /\ \A n \in CompleteRcvd :
        /\ \E i \in 1..Len(clientMsgs) : clientMsgs[i].id = rcvd[n].message.id
        /\ \A i \in 1..Len(clientMsgs) :
              clientMsgs[i].id = rcvd[n].message.id =>
                 clientMsgs[i] = ClientMessageOf(rcvd[n].message)
  /\ \A ws \in Conns : \A n \in 1..Len(sent[ws]) :
        sent[ws][n].type = "chat.complete" =>
           \E k \in 1..Len(messages) :
              /\ messages[k].id = sent[ws][n].message.id
              /\ mapRowToMessage(messages[k]).content = sent[ws][n].message.content

\* The client handled chat.complete while it held, for that message, a
\* block still marked needsApproval and a content other than the final one.
C33_Witness ==
  \E n \in CompleteRcvd :
     LET before == HandleAll(<<>>, SubSeq(rcvd, 1, n - 1)) IN
     \E i \in 1..Len(before) :
        /\ before[i].id = rcvd[n].message.id
        /\ before[i] # ClientMessageOf(rcvd[n].message)
        /\ \E j \in 1..Len(before[i].content) : before[i].content[j].needsApproval
        /\ Len(rcvd[n].message.content) >= 2

\* ---------------------------------------------------- concurrency claims
\* The turn of SessionId is suspended: an invocation waits at the approval
\* gate for a request nobody has resolved.
Suspended ==
  \E c \in CallIds : calls[c].phase = "awaiting" /\ ~promises[calls[c].req].settled

\* Where connection ws was sent a message of the given type and session.
SentAt(ws, type, sessionId) ==
  {i \in 1..Len(sent[ws]) : sent[ws][i].type = type /\ sent[ws][i].sessionId = sessionId}
ApprovalRequestsAt(ws) ==
  {i \in 1..Len(sent[ws]) : sent[ws][i].type = "tool.approval_required"}

\* C34: while the turn of one session is suspended at the approval gate, the
\* chat.message of another session is handled and its turn goes on to
\* complete, and a tool.approval message on the connection whose chat.message
\* handler is suspended is handled; once the request is resolved the
\* suspended invocation resumes.
C34_SessionsIndependent ==
  /\ Suspended =>
       /\ other.pc = "idle" => ENABLED HandleChatOther(2)
       /\ other.pc = "streaming" => ENABLED OtherEndOfStream
       /\ \A id \in DOMAIN pendingApprovals, a \in BOOLEAN :
             ENABLED ToolApprovalMessage(chatWs, id, a)
  /\ \A c \in CallIds :
       (calls[c].phase = "awaiting" /\ promises[calls[c].req].settled) =>
          ENABLED ApprovalSettled(c)

\* Both turns are complete: the other session's turn started after the
\* approval request of the first was sent and completed before the first
\* turn's tool result, and the first turn's request was approved by a
\* tool.approval message on its own connection.
C34_Witness ==
  /\ pc = "done" /\ other.pc = "done"
  /\ \E c \in CallIds : ApprovedTrue(c) /\ calls[c].executions = 1
  /\ \E a \in ApprovalRequestsAt(1), s \in SentAt(1, "chat.start", OtherSession),
        d \in SentAt(1, "chat.complete", OtherSession),
        r \in SentAt(1, "chat.tool_result", SessionId) : a < s /\ s < d /\ d < r

\* ------------------------------------------------ inbound message claims
\* C35: a text that cannot be parsed, or whose type is no client command,
\* is answered with one error event to the sending connection, parse_error
\* for a text that is not JSON and unknown_message for an object with a type
\* of no case; the connection stays registered and open with its session
\* binding, and no session, message or other connection is touched.
C35_MalformedInbound ==
  [][\A ws \in Conns, text \in InboundTexts :
       WebsocketMessage(ws, text) =>
         /\ \E code \in {"parse_error", "unknown_message"} :
               sent'[ws] = Append(sent[ws], ErrorMsg(code))
         /\ text = "{oops" => sent'[ws] = Append(sent[ws], ErrorMsg("parse_error"))
         /\ text \in {"{}", "{type:ping}"} =>
               sent'[ws] = Append(sent[ws], ErrorMsg("unknown_message"))
         /\ \A w \in Conns \ {ws} : sent'[w] = sent[w]
         /\ ws \in ClientKeys' /\ readyState'[ws] = "OPEN"
         /\ UNCHANGED <<clients, sessions, messages, pendingApprovals, promises, pc>>]_vars

\* A connection was answered unknown_message and then had its session.resume
\* handled.
C35_Witness ==
  \E ws \in Conns : \E i \in 1..Len(sent[ws]) :
     /\ sent[ws][i] = ErrorMsg("unknown_message")
     /\ i < Len(sent[ws])
     /\ sent[ws][i + 1].type = "session.resumed"
     /\ \E k \in 1..Len(clients) : clients[k].ws = ws /\ clients[k].sessionId = "s2"

\* ------------------------------------------------------- isError claims
\* executeTool ran for invocation c and returned success=false.
FailedRun(c) ==
  /\ calls[c].executions = 1
  /\ calls[c].output = JsVal("object", ExecFailure.error, "", "", "", "", "")

\* The tool_result blocks of invocation c in a content.
ResultBlocksOf(content, c) ==
  {j \in 1..Len(content) : /\ content[j].type = "tool_result"
                           /\ content[j].toolCallId = calls[c].providerId}

\* C36: a tool_result block, in the message streamChat builds and in the
\* client's message, has isError = TRUE exactly when its invocation was
\* rejected or its execution failed.
C36_IsErrorIffFailed ==
  \A c \in CallIds :
     /\ \A j \in ResultBlocksOf(contentBlocks, c) :
           contentBlocks[j].isError <=> (Rejected(c) \/ FailedRun(c))
     /\ \A i \in 1..Len(clientMsgs) : \A j \in ResultBlocksOf(clientMsgs[i].content, c) :
           clientMsgs[i].content[j].isError <=> (Rejected(c) \/ FailedRun(c))

\* ---------------------------------------------- approval request claims
\* Block b is the tool_call block of call x and that call is settled for
\* the user: its request was answered (the block carries the request's id
\* and no needsApproval), or its tool_result has arrived.
SettledBlock(b, x) ==
  /\ b.type = "tool_call"
  /\ \/ b.toolCallId = calls[x].uuid /\ ~b.needsApproval
     \/ b.toolCallId \in {calls[x].providerId, calls[x].uuid} /\ Got(ToolResultMsg(x))

\* The positions of the client's blocks.
BlockPositions(msgs) ==
  {p \in (1..Len(msgs)) \X (1..MaxBlocks) : p[2] <= Len(msgs[p[1]].content)}

\* The requests of the calls before call k that need approval have arrived,
\* as the server sends them on the connection.
EarlierRequestsRcvd(k) ==
  \A x \in 1..(k - 1) : ToolDefs[calls[x].toolName].requireApproval => Got(ApprovalMsg(x))

\* C37: handling the tool.approval_required of call k changes at most one
\* block, and never the tool_call block of an earlier call that was already
\* answered or has its tool_result.
C37_ApprovalSparesSettledCalls ==
  [][\A k \in 1..Len(calls) :
       (EarlierRequestsRcvd(k) /\ ClientReceive(ApprovalMsg(k))) =>
         /\ Len(clientMsgs') = Len(clientMsgs)
         /\ Cardinality({p \in BlockPositions(clientMsgs') :
                           \/ p \notin BlockPositions(clientMsgs)
                           \/ clientMsgs'[p[1]].content[p[2]] # clientMsgs[p[1]].content[p[2]]})
               <= 1
         /\ \A p \in BlockPositions(clientMsgs) :
               (\E x \in 1..(k - 1) : SettledBlock(clientMsgs[p[1]].content[p[2]], x)) =>
                  clientMsgs'[p[1]].content[p[2]] = clientMsgs[p[1]].content[p[2]]]_vars

\* --------------------------------------------------- no subscriber claims
\* Invocation c asked for approval and no connection was sent its request.
Unnotified(c) ==
  /\ c \in CallIds
  /\ calls[c].req # 0
  /\ \A ws \in Conns : ApprovalAt(ws, c) = {}

\* The request of invocation c timed out: resolved to false by its timer,
\* five minutes or more after it was made.
TimedOut(c) ==
  /\ c \in CallIds
  /\ Denied(c)
  /\ promises[calls[c].req].by = "timer"
  /\ now - promises[calls[c].req].createdAt >= APPROVAL_TIMEOUT_MS

\* The turn is complete with the USER_REJECTION result of invocation c.
CompleteWithRejection(c) ==
  /\ pc = "done"
  /\ calls[c].executions = 0
  /\ \E i \in EventsOf("tool_result", c) :
        /\ events[i].result.error = "USER_REJECTION"
        /\ \E j \in (i + 1)..Len(events) : events[j].type = "complete"

\* C38: a request made while no connection is subscribed to the session is
\* registered in the gate until it is resolved, no connection is sent it,
\* the tool does not run and the request is resolved by its timer only, to
\* false; and it leads to a complete turn holding the USER_REJECTION result.
C38_UnansweredRequestTimesOut ==
  \A c \in 1..MaxCalls :
     /\ [](Unnotified(c) =>
             /\ calls[c].executions = 0
             /\ IF promises[calls[c].req].settled THEN TimedOut(c)
                ELSE /\ calls[c].uuid \in DOMAIN pendingApprovals
                     /\ calls[c].phase = "awaiting")
     /\ (Unnotified(c) ~> (TimedOut(c) /\ CompleteWithRejection(c)))

\* A complete turn whose call of rm nobody was asked about and whose
\* request timed out.
C38_Witness ==
  \E c \in CallIds :
     /\ Unnotified(c) /\ TimedOut(c) /\ CompleteWithRejection(c)
     /\ calls[c].toolName = "rm"
     /\ \A ws \in Conns : ApprovalRequestsAt(ws) = {}

====
